---- MODULE Spec2Model ----
\* Job processing and job cancellation of one printer of the Printer Application
\* framework: _papplJobProcess and its format handlers (job-process.c) and
\* papplPrinterCancelAllJobs (printer.c).  One processor thread per job; the
\* thread of job j is identified by j.
EXTENDS Integers, Sequences, FiniteSets, TLC

\* ---------------------------------------------------------------- bounds
MaxJobs   == 2      \* jobs ever created on the printer
MaxPages  == 2      \* pages of a raster document
MaxCopies == 2      \* largest value of the copies option
MaxSets   == 1      \* calls of papplPrinterSetDriverData
MaxPresets == 2     \* presets of the printer
MaxPrinters == 3    \* printers ever created in the system
MaxRows == 2        \* header.cupsHeight, the pixel rows of a raster page
MaxPng == 3         \* width and height of a PNG image, in pixels
MaxDots == 3        \* header.cupsWidth and header.cupsHeight of a PNG job's page
Margin == 9         \* a media margin, in hundredths of millimetres

NULL == 0           \* the null job / the free lock
Jobs == 1..MaxJobs

Formats == {"raster", "jpeg", "png", "raw", "other"}

VARIABLES
  jstate,          \* job->state ("none": the job does not exist yet)
  is_canceled,     \* job->is_canceled
  format,          \* job->format
  fd,              \* job->fd >= 0
  hasfile,         \* the job's spool file exists
  active_jobs,     \* printer->active_jobs (cupsArray, compare_active_jobs)
  completed_jobs,  \* printer->completed_jobs (cupsArray)
  all_jobs,        \* printer->all_jobs (cupsArray)
  next_job_id,     \* printer->next_job_id
  processing_job,  \* printer->processing_job
  pstate,          \* printer->state
  device,          \* printer->device != NULL
  clean_time,      \* system->clean_time != 0
  plock,           \* writer of printer->rwlock (NULL: free)
  jlock,           \* job->rwlock is write-locked (by the job's processor)
  relock,          \* what wrlock does in this build when the caller already holds the lock
  pc,              \* position of the processor thread of each job
  first_open,      \* _papplJobProcess local
  unavail_logs,    \* "Unable to open device" lines logged by the running processor
  page,            \* process_raster local
  copies,          \* options.copies in process_png
  i,               \* process_png loop variable
  driver_attrs,    \* printer->driver_attrs: "valid", or "deleted" (freed by ippDelete)
  driver_data,     \* printer->driver_data: which papplPrinterSetDriverData call wrote it
  readers,         \* threads holding printer->rwlock for reading
  writer,          \* thread holding printer->rwlock for writing ("none": free)
  tpc,             \* position of the threads that work on the attribute maps
  presets,         \* printer->presets, in array order
  jps,             \* the job-presets-supported attribute of printer->attrs
  routes,          \* preset names bound to registered edit/copy routes
  config_changed,  \* _papplSystemConfigChanged was called
  status,          \* status message of the last preset request
  req,             \* the preset request the web thread is working on
  file,            \* the lines of the printer's preset state file
  saved,           \* the presets the state file was written from
  linenum,         \* papplPresetAdd: lines read so far
  preset,          \* papplPresetAdd: the preset being read
  loaded,          \* the presets papplPresetAdd added to the printer
  fpc,             \* position in papplPresetAdd
  multi_queue,     \* system->options & PAPPL_SOPTIONS_MULTI_QUEUE
  printers,        \* system->printers
  next_printer_id, \* system->next_printer_id
  resources,       \* system->resources, in array order
  deleted,         \* the printer objects that have been freed
  nobj,            \* printer objects allocated so far
  cpc,             \* position of each thread inside papplPrinterCreate
  cname,           \* papplPrinterCreate: printer_name
  cres,            \* papplPrinterCreate: resource
  cprinter,        \* papplPrinterCreate: printer
  cerrno,          \* errno after papplPrinterCreate returned NULL
  is_deleted,      \* printer->is_deleted
  freed,           \* free(printer) has been called on the printer of the jobs
  dpc,             \* position of the thread that serves the printer's delete page
  rpc,             \* position inside process_raster, row by row
  rstate,          \* job->state of the job that is streamed
  rcanceled,       \* job->is_canceled of the job that is streamed
  rpage,           \* process_raster: page
  y,               \* process_raster: y
  failed,          \* the first driver callback that returned false ("none": none did)
  late_rows,       \* a pixel row went to the driver after a callback had returned false
  rstartjob_ok,    \* process_raster: rstartjob returned true
  rendjob_calls,   \* process_raster: calls of rendjob
  native_format,   \* printer->driver_data.format
  options,         \* process_png: options, as prepare_options left it
  png,             \* process_png: png (width and height of the decoded image)
  pixels,          \* process_png: the decoded gray pixels, by offset
  pointer_bits,    \* width of a pointer in this build
  ppc,             \* position inside process_png, pixel by pixel
  png_state,       \* job->state of the job that is rendered
  scale,           \* process_png: the locals set before the first callback
  pos,             \* process_png: the loop variables i, y, x, pixptr, xerr
  byte,            \* process_png: the pixels set in the row being dithered, per run
  line,            \* process_png: the pixels set in the output line, per run
  killed,          \* the run was ended by a signal
  calls,           \* the driver callbacks process_png has called, in order
  attrs,           \* job->attrs, printer->attrs and printer->driver_attrs, by name
  lookups,         \* prepare_options: what find_attr returned, by name
  prepared,        \* prepare_options: the options it has set so far
  opc              \* position inside prepare_options

vars == <<jstate, is_canceled, format, fd, hasfile, active_jobs, completed_jobs,
          all_jobs, next_job_id, processing_job, pstate, device, clean_time,
          plock, jlock, relock, pc, first_open, unavail_logs, page, copies, i,
          driver_attrs, driver_data, readers, writer, tpc, presets, jps,
          routes, config_changed, status, req,
          file, saved, linenum, preset, loaded, fpc,
          multi_queue, printers, next_printer_id, resources, deleted, nobj,
          cpc, cname, cres, cprinter, cerrno, is_deleted, freed, dpc,
          rpc, rstate, rcanceled, rpage, y, failed, late_rows,
          rstartjob_ok, rendjob_calls,
          native_format, options, png, pixels, pointer_bits, ppc, png_state,
          scale, pos, byte, line, killed, calls, attrs, lookups, prepared,
          opc>>

\* What no step of the job queue, the attribute maps, the state file, the
\* system and the raster streamer writes.
gvars == <<options, png, pixels, pointer_bits, ppc, png_state, scale, pos,
           byte, line, killed, calls>>
ovars == <<attrs, lookups, prepared, opc>>
wvars == <<native_format, gvars, ovars>>

\* The raster streamer followed row by row.
rvars == <<rpc, rstate, rcanceled, rpage, y, failed, late_rows,
           rstartjob_ok, rendjob_calls>>

\* The deletion of the printer whose jobs are processed.
dvars == <<is_deleted, freed, dpc>>

\* The preset state file and the position of its reader.
fvars == <<file, saved, linenum, preset, loaded, fpc>>

\* The state of the printer's attribute maps and of the threads working on
\* them, and the state file; the job processor and papplPrinterCancelAllJobs
\* do not write it.
\* The printers and routes of the system and the threads creating printers.
svars == <<multi_queue, printers, next_printer_id, resources, deleted, nobj,
           cpc, cname, cres, cprinter, cerrno>>

avars == <<driver_attrs, driver_data, readers, writer, tpc, presets, jps,
           routes, config_changed, status, req>>
pvars == <<avars, fvars, svars, dvars, rvars, wvars>>

jobvars  == <<jstate, is_canceled, format, fd, hasfile>>
arrays   == <<active_jobs, completed_jobs, all_jobs, next_job_id>>
locals   == <<first_open, unavail_logs, page, copies, i>>

\* ------------------------------------------------------------ cupsArray
Range(s) == {s[k] : k \in 1..Len(s)}

\* compare_active_jobs / compare_all_jobs / compare_completed_jobs:
\* b->job_id - a->job_id, so the arrays are kept in descending job_id order.
compare_jobs(a, b) == b - a

\* cupsArrayAdd on an array sorted by compare_jobs (duplicates are kept).
ArrayAdd(arr, j) ==
  LET before == SelectSeq(arr, LAMBDA x : compare_jobs(x, j) <= 0)
      after  == SelectSeq(arr, LAMBDA x : compare_jobs(x, j) > 0)
  IN  before \o <<j>> \o after

\* cupsArrayRemove: removes the first element equal to j, if any.
ArrayRemove(arr, j) ==
  IF j \notin Range(arr) THEN arr
  ELSE LET k == CHOOSE n \in 1..Len(arr) :
                  arr[n] = j /\ \A m \in 1..(n - 1) : arr[m] # j
       IN  SubSeq(arr, 1, k - 1) \o SubSeq(arr, k + 1, Len(arr))

TypeOK ==
  /\ jstate \in [Jobs -> {"none", "pending", "held", "processing", "stopped",
                          "canceled", "aborted", "completed"}]
  /\ is_canceled \in [Jobs -> BOOLEAN]
  /\ format \in [Jobs -> Formats]
  /\ processing_job \in Jobs \cup {NULL}
  /\ pstate \in {"idle", "processing", "stopped"}
  /\ plock \in Jobs \cup {NULL}
  /\ Range(active_jobs) \subseteq Jobs

\* The threads that work on the printer's attribute maps: "create" is inside
\* papplPrinterCreate, "set" calls papplPrinterSetDriverData, "opt" is a job
\* processor inside prepare_options, "web" serves the preset pages.
Threads == {"create", "set", "opt", "web"}

\* Preset names, and the settings a preset can have set (its check bits).
Names == {"a", "b"}
Settings == {"print-quality"}
Preset(n, v) == [name |-> n, vals |-> v]
NoRequest == [op |-> "none"]
NoAttr == [present |-> FALSE, members |-> <<>>]

\* The attribute maps of a printer nobody is working on.
AttrsAtRest ==
  /\ driver_attrs = "valid"
  /\ driver_data = 0
  /\ readers = {}
  /\ writer = "none"
  /\ tpc = [t \in Threads |-> IF t = "create" THEN "load1172" ELSE "idle"]
  /\ presets = <<>>
  /\ jps = NoAttr
  /\ routes = {}
  /\ config_changed = FALSE
  /\ status = "none"
  /\ req = NoRequest

\* No state file has been written or read.
FileAtRest ==
  /\ file = <<>>
  /\ saved = <<>>
  /\ linenum = 0
  /\ preset = [name |-> "none"]
  /\ loaded = <<>>
  /\ fpc = "write"

\* A printer without jobs.
JobsEmpty ==
  /\ jstate = [j \in Jobs |-> "none"]
  /\ is_canceled = [j \in Jobs |-> FALSE]
  /\ format = [j \in Jobs |-> "raw"]
  /\ fd = [j \in Jobs |-> FALSE]
  /\ hasfile = [j \in Jobs |-> FALSE]
  /\ active_jobs = <<>>
  /\ completed_jobs = <<>>
  /\ all_jobs = <<>>
  /\ next_job_id = 1
  /\ processing_job = NULL
  /\ pstate = "idle"
  /\ device = FALSE
  /\ clean_time = FALSE
  /\ plock = NULL
  /\ jlock = [j \in Jobs |-> FALSE]
  /\ relock \in {"EDEADLK", "block"}
  /\ pc = [j \in Jobs |-> "none"]
  /\ first_open = [j \in Jobs |-> TRUE]
  /\ unavail_logs = [j \in Jobs |-> 0]
  /\ page = [j \in Jobs |-> 0]
  /\ copies = [j \in Jobs |-> 0]
  /\ i = [j \in Jobs |-> 0]
  /\ is_deleted = FALSE
  /\ freed = FALSE
  /\ dpc = "idle"
  /\ rpc = "ras710"
  /\ rstate = "processing"
  /\ rcanceled = FALSE
  /\ rpage = 0
  /\ y = 0
  /\ failed = "none"
  /\ late_rows = FALSE
  /\ rstartjob_ok = FALSE
  /\ rendjob_calls = 0

\* Two runs of process_png on the same input, step by step together.
Runs == {1, 2}

\* The locals of process_png before they are assigned.
Unset ==
  [ileft |-> 0, itop |-> 0, iwidth |-> 0, iheight |-> 0,
   pixbase |-> 0, png_width |-> 0, png_height |-> 0, xdir |-> 0, ydir |-> 0,
   xsize |-> 0, ysize |-> 0, xstart |-> 0, xend |-> 0, ystart |-> 0,
   yend |-> 0, xmod |-> 0, xstep |-> 0]

\* The loop variables of process_png before the loops.
AtStart == [i |-> 0, y |-> 0, x |-> 0, wraps |-> 0, pixptr |-> 0, xerr |-> 0]

\* The attributes prepare_options looks up.
OptionNames == {"copies", "media-col", "media", "print-darkness"}
AttrLevels == {"job", "printer", "driver"}

\* options after the memset at job-process.c:221-224, before any lookup.
Cleared ==
  [copies |-> 0, media |-> "media_default", print_darkness |-> 0]

\* prepare_options before it has started.
OptionsAtStart ==
  /\ lookups = <<>>
  /\ prepared = Cleared
  /\ opc = "opt221"

\* No options are prepared.
OptionsAtRest ==
  /\ attrs = [l \in AttrLevels |-> [n \in OptionNames |-> {}]]
  /\ OptionsAtStart

\* The renderer before it has started.
PngAtStart ==
  /\ ppc = "png432"
  /\ png_state = "processing"
  /\ scale = Unset
  /\ pos = AtStart
  /\ byte = [r \in Runs |-> {}]
  /\ line = [r \in Runs |-> {}]
  /\ killed = [r \in Runs |-> FALSE]
  /\ calls = <<>>

\* No PNG job is rendered.
PngAtRest ==
  /\ options = [copies |-> 1, orientation_requested |-> "none",
                left_margin |-> 0, top_margin |-> 0, right_margin |-> 0,
                bottom_margin |-> 0, cupsWidth |-> 1, cupsHeight |-> 1,
                printer_resolution |-> 300]
  /\ png = [width |-> 1, height |-> 1]
  /\ pixels = <<0>>
  /\ pointer_bits = 64
  /\ PngAtStart

QueueEmpty == JobsEmpty /\ PngAtRest /\ OptionsAtRest

\* The job queue at rest on a printer whose driver has a native format that is
\* neither a raster nor an image format.
QueueAtRest == QueueEmpty /\ native_format = "raw"

\* The threads that call papplPrinterCreate.
Creators == {"c1", "c2"}
NoPrinter == [obj |-> 0]

\* A system without printers.
SystemEmpty ==
  /\ printers = {}
  /\ next_printer_id = 1
  /\ resources = <<>>
  /\ deleted = {}
  /\ nobj = 0
  /\ cpc = [c \in Creators |-> "idle"]
  /\ cname = [c \in Creators |-> <<>>]
  /\ cres = [c \in Creators |-> <<>>]
  /\ cprinter = [c \in Creators |-> NoPrinter]
  /\ cerrno = [c \in Creators |-> "none"]

SystemAtRest == multi_queue = TRUE /\ SystemEmpty

Init ==
  /\ AttrsAtRest
  /\ FileAtRest
  /\ QueueAtRest
  /\ SystemAtRest

\* ------------------------------------------- job creation and scheduling
\* Printer.createJob: a new job gets the next job id, is pending or held (held
\* jobs may still have their spool file open) and is entered in active_jobs and
\* all_jobs.  Nothing reads the format of a job that is not processed, so held
\* jobs are created with one format only.
CreateJob ==
  /\ next_job_id <= MaxJobs
  /\ \E st \in {"pending", "held"}, f \in Formats, open \in BOOLEAN :
       /\ (open => st = "held")
       /\ (st = "held" => f = "raw")
       /\ jstate' = [jstate EXCEPT ![next_job_id] = st]
       /\ format' = [format EXCEPT ![next_job_id] = f]
       /\ fd' = [fd EXCEPT ![next_job_id] = open]
       /\ hasfile' = [hasfile EXCEPT ![next_job_id] = TRUE]
  /\ active_jobs' = ArrayAdd(active_jobs, next_job_id)
  /\ all_jobs' = ArrayAdd(all_jobs, next_job_id)
  /\ next_job_id' = next_job_id + 1
  /\ UNCHANGED <<is_canceled, completed_jobs, processing_job, pstate, device,
                 clean_time, plock, jlock, relock, pvars, pc, locals>>

PendingJobs == SelectSeq(active_jobs, LAMBDA x : jstate[x] = "pending")

\* _papplPrinterCheckJobs: when no job is being processed, start a processor
\* thread for the first pending job of active_jobs.  Processing is serialized
\* through processing_job: a processor that was started and has not yet stored
\* its job there counts as the printer's processor.  p is the pc function the
\* call starts from; the result is the pc function after it.
CheckJobsPc(p) ==
  IF /\ processing_job = NULL
     /\ \A k \in Jobs : p[k] # "claim52"
     /\ PendingJobs # <<>>
     /\ p[Head(PendingJobs)] = "none"
  THEN [p EXCEPT ![Head(PendingJobs)] = "claim52"]
  ELSE p

\* The "check jobs" event posted when a job arrives.
CheckJobs ==
  /\ pc' = CheckJobsPc(pc)
  /\ pc' # pc
  /\ UNCHANGED <<jobvars, arrays, processing_job, pstate, device, clean_time,
                 plock, jlock, relock, pvars, locals>>

\* ------------------------------------------------ papplPrinterCancelAllJobs
\* The test of printer.c:51: the job is only marked, not removed.
OnlyMark(st, open) == st = "processing" \/ (st = "held" /\ open)

\* A loop whose current index stays where it was after a removal, so that the
\* following cupsArrayGetNext steps over the element that moved up.
RECURSIVE CancelLoopSkips(_, _)
CancelLoopSkips(s, cur) ==
  IF cur > Len(s.active) THEN s
  ELSE LET job == s.active[cur] IN
       IF OnlyMark(s.state[job], fd[job])
       THEN CancelLoopSkips([s EXCEPT !.canceled[job] = TRUE], cur + 1)
       ELSE CancelLoopSkips([s EXCEPT !.state[job] = "canceled",
                                      !.file[job] = FALSE,
                                      !.active = ArrayRemove(s.active, job),
                                      !.completed = ArrayAdd(s.completed, job)],
                            cur + 1)

\* The loop of printer.c:48-65 over active_jobs.  s holds the arrays and job
\* fields the loop changes, cur is the array's current index.  cupsArrayRemove
\* of the current element moves the current index back by one, so that the
\* following cupsArrayGetNext lands on the element after the removed one.
RECURSIVE CancelLoop(_, _)
CancelLoop(s, cur) ==
  IF cur > Len(s.active) THEN s
  ELSE LET job == s.active[cur] IN
       IF OnlyMark(s.state[job], fd[job])
       THEN CancelLoop([s EXCEPT !.canceled[job] = TRUE], cur + 1)
       ELSE CancelLoop([s EXCEPT !.state[job] = "canceled",
                                 !.file[job] = FALSE,
                                 !.active = ArrayRemove(s.active, job),
                                 !.completed = ArrayAdd(s.completed, job)],
                       (cur - 1) + 1)

papplPrinterCancelAllJobs ==
  /\ plock = NULL                      \* _papplRWLockWrite ... _papplRWUnlock
  /\ LET r == CancelLoop([active |-> active_jobs, completed |-> completed_jobs,
                          state |-> jstate, canceled |-> is_canceled,
                          file |-> hasfile], 1)
     IN  /\ active_jobs' = r.active
         /\ completed_jobs' = r.completed
         /\ jstate' = r.state
         /\ is_canceled' = r.canceled
         /\ hasfile' = r.file
  /\ clean_time' = TRUE
  /\ UNCHANGED <<format, fd, all_jobs, next_job_id, processing_job, pstate,
                 device, plock, jlock, relock, pvars, pc, locals>>

\* ------------------------------------------------------- _papplJobProcess
Goto(j, to) == pc' = [pc EXCEPT ![j] = to]

\* pthread_rwlock_wrlock(&job->rwlock) by the job's own processor.  When the
\* thread already holds the lock the call is undefined: it either fails with
\* EDEADLK and the thread goes on, still holding the lock, or it never returns.
WrlockJob(j, from, to) ==
  /\ pc[j] = from
  /\ IF ~jlock[j]
     THEN /\ jlock' = [jlock EXCEPT ![j] = TRUE]
          /\ Goto(j, to)
     ELSE /\ jlock' = jlock
          /\ Goto(j, IF relock = "EDEADLK" THEN to ELSE "blocked")

\* A processor that marks its job processing without storing it in
\* printer->processing_job.
ClaimWithoutProcessingJob(j) ==
  /\ WrlockJob(j, "claim52", "relock58")
  /\ IF pc'[j] = "blocked"
     THEN UNCHANGED jstate
     ELSE jstate' = [jstate EXCEPT ![j] = "processing"]
  /\ UNCHANGED <<is_canceled, format, fd, hasfile, arrays, pstate, device,
                 clean_time, plock, relock, pvars, locals, processing_job>>

\* job-process.c:52-56
Claim(j) ==
  /\ WrlockJob(j, "claim52", "relock58")
  /\ IF pc'[j] = "blocked"
     THEN UNCHANGED <<jstate, processing_job>>
     ELSE /\ jstate' = [jstate EXCEPT ![j] = "processing"]
          /\ processing_job' = j
  /\ UNCHANGED <<is_canceled, format, fd, hasfile, arrays, pstate, device,
                 clean_time, plock, relock, pvars, locals>>

\* job-process.c:58
Relock58(j) ==
  /\ WrlockJob(j, "relock58", "lock61")
  /\ UNCHANGED <<jobvars, arrays, processing_job, pstate, device, clean_time,
                 plock, relock, pvars, locals>>

\* pthread_rwlock_wrlock(&job->printer->rwlock)
WrlockPrinter(j, from, to) ==
  /\ pc[j] = from
  /\ plock = NULL
  /\ plock' = j
  /\ Goto(j, to)

\* job-process.c:61
Lock61(j) ==
  /\ WrlockPrinter(j, "lock61", "open63")
  /\ UNCHANGED <<jobvars, arrays, processing_job, pstate, device, clean_time,
                 jlock, relock, pvars, locals>>

\* A retry loop that stops the printer and logs on every failed open.
OpenFailedLogsEveryTime(j) ==
  /\ unavail_logs' = [unavail_logs EXCEPT ![j] = @ + 1]
  /\ first_open' = [first_open EXCEPT ![j] = FALSE]
  /\ pstate' = "stopped"
  /\ Goto(j, "sleep79")
  /\ UNCHANGED device

\* job-process.c:67-80, the device could not be opened.
OpenFailed(j) ==
  /\ IF first_open[j]
     THEN /\ unavail_logs' = [unavail_logs EXCEPT ![j] = @ + 1]
          /\ first_open' = [first_open EXCEPT ![j] = FALSE]
          /\ pstate' = "stopped"
     ELSE UNCHANGED <<unavail_logs, first_open, pstate>>
  /\ Goto(j, "sleep79")
  /\ UNCHANGED device

\* job-process.c:63-65, one test of the loop condition and one papplDeviceOpen.
OpenDevice(j) ==
  /\ pc[j] = "open63"
  /\ IF device
     THEN /\ Goto(j, "unlock83")
          /\ UNCHANGED <<device, unavail_logs, first_open, pstate>>
     ELSE \E opened \in BOOLEAN :
            IF opened
            THEN /\ device' = TRUE
                 /\ Goto(j, "unlock83")
                 /\ UNCHANGED <<unavail_logs, first_open, pstate>>
            ELSE OpenFailed(j)
  /\ UNCHANGED <<jobvars, arrays, processing_job, clean_time, plock, jlock,
                 relock, pvars, page, copies, i>>

\* job-process.c:79
Sleep79(j) ==
  /\ pc[j] = "sleep79"
  /\ Goto(j, "open63")
  /\ UNCHANGED <<jobvars, arrays, processing_job, pstate, device, clean_time,
                 plock, jlock, relock, pvars, locals>>

\* job-process.c:83
Unlock83(j) ==
  /\ pc[j] = "unlock83"
  /\ plock' = NULL
  /\ Goto(j, "proc86")
  /\ UNCHANGED <<jobvars, arrays, processing_job, pstate, device, clean_time,
                 jlock, relock, pvars, locals>>

\* A dispatch that tests the driver's format first.
HandlerOfNativeFirst(f) ==
  CASE f = native_format -> "raw798"
    [] f = "raster"      -> "ras710"
    [] f = "jpeg"        -> "jpeg382"
    [] f = "png"         -> "png432"
    [] OTHER             -> "unsupported112"

\* job-process.c:89-114, the handler a format is dispatched to, by the first
\* test of the chain that matches.  HAVE_LIBJPEG and HAVE_LIBPNG are taken as
\* defined.
HandlerOf(f) ==
  CASE f = "raster"      -> "ras710"
    [] f = "jpeg"        -> "jpeg382"
    [] f = "png"         -> "png432"
    [] f = native_format -> "raw798"
    [] OTHER             -> "unsupported112"

\* job-process.c:86-114
Dispatch(j) ==
  /\ pc[j] = "proc86"
  /\ pstate' = "processing"
  /\ LET h == HandlerOf(format[j]) IN
       IF h = "unsupported112"
       THEN /\ jstate' = [jstate EXCEPT ![j] = "aborted"]
            /\ Goto(j, "lock117")
       ELSE /\ jstate' = jstate
            /\ Goto(j, IF h = "jpeg382" THEN "lock117" ELSE h)
  /\ UNCHANGED <<is_canceled, format, fd, hasfile, arrays, processing_job,
                 device, clean_time, plock, jlock, relock, pvars, locals>>

\* ---------------------------------------------------------- format handlers
\* The handler's locals go out of scope when it returns.
ClearLocals(j) ==
  /\ page' = [page EXCEPT ![j] = 0]
  /\ copies' = [copies EXCEPT ![j] = 0]
  /\ i' = [i EXCEPT ![j] = 0]

\* abort_job: (job-process.c:679-687, 777-785)
AbortJob(j) ==
  /\ jstate' = [jstate EXCEPT ![j] = "aborted"]
  /\ Goto(j, "lock117")
  /\ ClearLocals(j)

\* A handler returns without aborting.
Return(j) ==
  /\ jstate' = jstate
  /\ Goto(j, "lock117")
  /\ ClearLocals(j)

\* prepare_options takes the printer's read lock (job-process.c:226, 372).
RdlockPrinter == plock = NULL

hfix == <<is_canceled, format, fd, hasfile, arrays, processing_job, pstate,
          device, clean_time, plock, jlock, relock, pvars, first_open, unavail_logs>>

\* process_raw, job-process.c:798-800
ProcessRaw(j) ==
  /\ pc[j] = "raw798"
  /\ RdlockPrinter
  /\ \E print_ok \in BOOLEAN : IF print_ok THEN Return(j) ELSE AbortJob(j)
  /\ UNCHANGED hfix

\* process_raster, job-process.c:710-730: open the spool file and the raster
\* stream, read the first header, prepare the options.
RasterOpen(j) ==
  /\ pc[j] = "ras710"
  /\ \/ AbortJob(j)
     \/ /\ RdlockPrinter
        /\ Goto(j, "ras732")
        /\ UNCHANGED <<jstate, page, copies, i>>
  /\ UNCHANGED hfix

\* job-process.c:732
RasterStartJob(j) ==
  /\ pc[j] = "ras732"
  /\ \E ok \in BOOLEAN :
       IF ok THEN Goto(j, "ras738") /\ UNCHANGED <<jstate, page, copies, i>>
       ELSE AbortJob(j)
  /\ UNCHANGED hfix

\* job-process.c:738-742: the next page is started whatever is_canceled says.
RasterStartPage(j) ==
  /\ pc[j] = "ras738"
  /\ \E ok \in BOOLEAN :
       IF ok THEN /\ Goto(j, "ras744")
                  /\ page' = [page EXCEPT ![j] = @ + 1]
                  /\ UNCHANGED <<jstate, copies, i>>
       ELSE AbortJob(j)
  /\ UNCHANGED hfix

\* job-process.c:744-766: the lines of the page (short: the stream ended before
\* header.cupsHeight lines were read; results of rwrite are not looked at),
\* rendpage, and the read of the next page header.
RasterPage(j) ==
  /\ pc[j] = "ras744"
  /\ \E short \in BOOLEAN, endpage_ok \in BOOLEAN, more \in BOOLEAN :
       IF ~endpage_ok \/ short
       THEN AbortJob(j)
       ELSE /\ Goto(j, IF more /\ page[j] < MaxPages THEN "ras738" ELSE "ras768")
            /\ UNCHANGED <<jstate, page, copies, i>>
  /\ UNCHANGED hfix

\* job-process.c:768-774
RasterEndJob(j) ==
  /\ pc[j] = "ras768"
  /\ \E ok \in BOOLEAN : IF ok THEN Return(j) ELSE AbortJob(j)
  /\ UNCHANGED hfix

\* process_png, job-process.c:432-474: options, imageable area, PNG decoding.
PngPrepare(j) ==
  /\ pc[j] = "png432"
  /\ RdlockPrinter
  /\ \E c \in 1..MaxCopies, ok \in BOOLEAN :
       IF ok THEN /\ copies' = [copies EXCEPT ![j] = c]
                  /\ Goto(j, "png571")
                  /\ UNCHANGED <<jstate, page, i>>
       ELSE AbortJob(j)
  /\ UNCHANGED hfix

\* job-process.c:571-580
PngStartJob(j) ==
  /\ pc[j] = "png571"
  /\ \E ok \in BOOLEAN :
       IF ok THEN /\ Goto(j, IF 0 < copies[j] THEN "png582" ELSE "png665")
                  /\ i' = [i EXCEPT ![j] = 0]
                  /\ UNCHANGED <<jstate, page, copies>>
       ELSE AbortJob(j)
  /\ UNCHANGED hfix

\* job-process.c:582: the next copy is started whatever is_canceled says.
PngStartPage(j) ==
  /\ pc[j] = "png582"
  /\ \E ok \in BOOLEAN :
       IF ok THEN Goto(j, "png590") /\ UNCHANGED <<jstate, page, copies, i>>
       ELSE AbortJob(j)
  /\ UNCHANGED hfix

\* job-process.c:588-662: the lines of one copy and rendpage; any failing rwrite
\* or a failing rendpage aborts.
PngPage(j) ==
  /\ pc[j] = "png590"
  /\ \E ok \in BOOLEAN :
       IF ok THEN /\ i' = [i EXCEPT ![j] = @ + 1]
                  /\ Goto(j, IF i[j] + 1 < copies[j] THEN "png582" ELSE "png665")
                  /\ UNCHANGED <<jstate, page, copies>>
       ELSE AbortJob(j)
  /\ UNCHANGED hfix

\* job-process.c:665-676
PngEndJob(j) ==
  /\ pc[j] = "png665"
  /\ \E ok \in BOOLEAN : IF ok THEN Return(j) ELSE AbortJob(j)
  /\ UNCHANGED hfix

\* ------------------------------------------------- finalize and drain
\* job-process.c:117
Lock117(j) ==
  /\ WrlockJob(j, "lock117", "fin119")
  /\ UNCHANGED <<jobvars, arrays, processing_job, pstate, device, clean_time,
                 plock, relock, pvars, locals>>

\* A finalize that tests the job's state before is_canceled.
FinalStateIgnoresCancel(st, canceled) ==
  IF st = "processing" THEN "completed"
  ELSE IF canceled THEN "canceled"
  ELSE st

\* job-process.c:119-122, the state the job is left in.
FinalState(st, canceled) ==
  IF canceled THEN "canceled"
  ELSE IF st = "processing" THEN "completed"
  ELSE st

\* A finalize that leaves printer->state as it is.
FinalizeKeepsPrinterState(j) ==
  /\ pc[j] = "fin119"
  /\ jstate' = [jstate EXCEPT ![j] =
                  IF is_canceled[j] THEN "canceled"
                  ELSE IF jstate[j] = "processing" THEN "completed"
                  ELSE jstate[j]]
  /\ processing_job' = NULL
  /\ Goto(j, "relock129")
  /\ UNCHANGED <<is_canceled, format, fd, hasfile, arrays, device, clean_time,
                 plock, jlock, relock, pvars, locals, pstate>>

\* job-process.c:119-127
Finalize(j) ==
  /\ pc[j] = "fin119"
  /\ jstate' = [jstate EXCEPT ![j] = FinalState(jstate[j], is_canceled[j])]
  /\ pstate' = "idle"
  /\ processing_job' = NULL
  /\ Goto(j, "relock129")
  /\ UNCHANGED <<is_canceled, format, fd, hasfile, arrays, device, clean_time,
                 plock, jlock, relock, pvars, locals>>

\* job-process.c:129
Relock129(j) ==
  /\ WrlockJob(j, "relock129", "lock131")
  /\ UNCHANGED <<jobvars, arrays, processing_job, pstate, device, clean_time,
                 plock, relock, pvars, locals>>

\* job-process.c:131
Lock131(j) ==
  /\ WrlockPrinter(j, "lock131", "move133")
  /\ UNCHANGED <<jobvars, arrays, processing_job, pstate, device, clean_time,
                 jlock, relock, pvars, locals>>

\* A move step that adds the job to completed_jobs and leaves it in active_jobs.
MoveJobNoRemove(j) ==
  /\ pc[j] = "move133"
  /\ completed_jobs' = ArrayAdd(completed_jobs, j)
  /\ clean_time' = TRUE
  /\ plock' = NULL
  /\ Goto(j, "drain141")
  /\ UNCHANGED <<jobvars, all_jobs, next_job_id, processing_job, pstate, device,
                 jlock, relock, pvars, locals, active_jobs>>

\* job-process.c:133-139
MoveJob(j) ==
  /\ pc[j] = "move133"
  /\ active_jobs' = ArrayRemove(active_jobs, j)
  /\ completed_jobs' = ArrayAdd(completed_jobs, j)
  /\ clean_time' = TRUE
  /\ plock' = NULL
  /\ Goto(j, "drain141")
  /\ UNCHANGED <<jobvars, all_jobs, next_job_id, processing_job, pstate, device,
                 jlock, relock, pvars, locals>>

\* return (NULL): the thread's locals and its count of log lines are gone.
ThreadExit(j) ==
  /\ first_open' = [first_open EXCEPT ![j] = TRUE]
  /\ unavail_logs' = [unavail_logs EXCEPT ![j] = 0]

\* job-process.c:145-148 (the printer is not deleted): more active jobs, so the
\* next one is started and the thread returns.
DrainNext(j) ==
  /\ pc[j] = "drain141"
  /\ ~is_deleted
  /\ Len(active_jobs) > 0
  /\ pc' = CheckJobsPc([pc EXCEPT ![j] = "done"])
  /\ ThreadExit(j)
  /\ UNCHANGED <<jobvars, arrays, processing_job, pstate, device, clean_time,
                 plock, jlock, relock, pvars, page, copies, i>>

\* job-process.c:145, 149: cupsArrayCount(active_jobs) is read without the
\* printer's lock and found 0, so the device is to be closed.
DrainEmpty(j) ==
  /\ pc[j] = "drain141"
  /\ ~is_deleted
  /\ Len(active_jobs) = 0
  /\ Goto(j, "lock151")
  /\ UNCHANGED <<jobvars, arrays, processing_job, pstate, device, clean_time,
                 plock, jlock, relock, pvars, locals>>

\* job-process.c:151
Lock151(j) ==
  /\ WrlockPrinter(j, "lock151", "close153")
  /\ UNCHANGED <<jobvars, arrays, processing_job, pstate, device, clean_time,
                 jlock, relock, pvars, locals>>

\* job-process.c:153-159
CloseDevice(j) ==
  /\ pc[j] = "close153"
  /\ device' = FALSE
  /\ plock' = NULL
  /\ Goto(j, "done")
  /\ ThreadExit(j)
  /\ UNCHANGED <<jobvars, arrays, processing_job, pstate, clean_time, jlock,
                 relock, pvars, page, copies, i>>

\* ------------------------------------------------------------ specification
Processor(j) ==
  \/ Claim(j) \/ Relock58(j) \/ Lock61(j) \/ OpenDevice(j) \/ Sleep79(j)
  \/ Unlock83(j) \/ Dispatch(j)
  \/ ProcessRaw(j)
  \/ RasterOpen(j) \/ RasterStartJob(j) \/ RasterStartPage(j) \/ RasterPage(j)
  \/ RasterEndJob(j)
  \/ PngPrepare(j) \/ PngStartJob(j) \/ PngStartPage(j) \/ PngPage(j)
  \/ PngEndJob(j)
  \/ Lock117(j) \/ Finalize(j) \/ Relock129(j) \/ Lock131(j) \/ MoveJob(j)
  \/ DrainNext(j) \/ DrainEmpty(j) \/ Lock151(j) \/ CloseDevice(j)

Next ==
  \/ CreateJob
  \/ CheckJobs
  \/ papplPrinterCancelAllJobs
  \/ \E j \in Jobs : Processor(j)

Spec == Init /\ [][Next]_vars

\* The processor threads are scheduled (each keeps taking its steps), and a
\* device that is retried for ever is opened at some attempt.
SpecFair ==
  /\ Spec
  /\ \A j \in Jobs : WF_vars(Processor(j))
  /\ \A j \in Jobs : SF_vars(OpenDevice(j) /\ device')

\* ------------------------------------------------- the attribute maps
\* The state of the job queue, which the actions below leave alone.
qvars == <<jobvars, arrays, processing_job, pstate, device, clean_time, plock,
           jlock, relock, pc, locals>>
jvars == <<qvars, fvars, svars, dvars, rvars, wvars>>

\* What reading the state file leaves alone, and what the creation and the
\* deletion of printers leave alone.
OutsideFile == <<qvars, avars, svars, dvars, rvars, wvars>>
OutsideSystem == <<qvars, avars, fvars, dvars, rvars, wvars>>

TGoto(t, to) == tpc' = [tpc EXCEPT ![t] = to]

\* The preset state, which papplPrinterSetDriverData and prepare_options leave
\* alone.
presetvars == <<presets, jps, routes, config_changed, status, req>>

\* papplPrinterCreate has returned.
Created == tpc["create"] = "done"

\* printer-driver.c:91-94: pthread_rwlock_rdlock(&printer->rwlock), a read lock.
SetDriverDataLock ==
  /\ Created
  /\ tpc["set"] = "idle"
  /\ driver_data < MaxSets
  /\ writer = "none"
  /\ readers' = readers \cup {"set"}
  /\ TGoto("set", "copy97")
  /\ UNCHANGED <<jvars, presetvars, driver_attrs, driver_data, writer>>

\* printer-driver.c:97: printer->driver_data = *data
SetDriverDataCopy ==
  /\ tpc["set"] = "copy97"
  /\ driver_data' = driver_data + 1
  /\ TGoto("set", "delete100")
  /\ UNCHANGED <<jvars, presetvars, driver_attrs, readers, writer>>

\* printer-driver.c:100: ippDelete(printer->driver_attrs)
SetDriverDataDelete ==
  /\ tpc["set"] = "delete100"
  /\ driver_attrs' = "deleted"
  /\ TGoto("set", "make101")
  /\ UNCHANGED <<jvars, presetvars, driver_data, readers, writer>>

\* printer-driver.c:101-104: printer->driver_attrs = make_attrs(data)
SetDriverDataMake ==
  /\ tpc["set"] = "make101"
  /\ driver_attrs' = "valid"
  /\ TGoto("set", "unlock106")
  /\ UNCHANGED <<jvars, presetvars, driver_data, readers, writer>>

\* printer-driver.c:106
SetDriverDataUnlock ==
  /\ tpc["set"] = "unlock106"
  /\ readers' = readers \ {"set"}
  /\ TGoto("set", "idle")
  /\ UNCHANGED <<jvars, presetvars, driver_attrs, driver_data, writer>>

\* job-process.c:226: prepare_options takes the printer's read lock.
PrepareOptionsLock ==
  /\ Created
  /\ tpc["opt"] = "idle"
  /\ writer = "none"
  /\ readers' = readers \cup {"opt"}
  /\ TGoto("opt", "find228")
  /\ UNCHANGED <<jvars, presetvars, driver_attrs, driver_data, writer>>

\* job-process.c:228-370: the options are looked up with find_attr, which reads
\* printer->attrs and printer->driver_attrs (line 200), and in driver_data.
PrepareOptionsFind ==
  /\ tpc["opt"] = "find228"
  /\ TGoto("opt", "unlock372")
  /\ UNCHANGED <<jvars, presetvars, driver_attrs, driver_data, readers, writer>>

\* job-process.c:372
PrepareOptionsUnlock ==
  /\ tpc["opt"] = "unlock372"
  /\ readers' = readers \ {"opt"}
  /\ TGoto("opt", "idle")
  /\ UNCHANGED <<jvars, presetvars, driver_attrs, driver_data, writer>>

\* --------------------------------------------------------- the presets
\* The attribute state the preset pages leave alone.
attrvars == <<driver_attrs, driver_data, readers>>

PresetNames == {presets[k].name : k \in 1..Len(presets)}

\* A member of job-presets-supported: a collection whose name is stored under
\* the key "name" (printer.c:1216) or "preset_name" (printer-webif.c:1258,
\* 2121), with the settings it carries.
Member(key, n, v) == [key |-> key, name |-> n, vals |-> v]

\* The presets papplPresetAdd reads from a state file written from a printer:
\* distinct names, and no check bit, since the reader sets none
\* (printer.c:429-489 assigns values only).
FilePresets ==
  {<<>>} \cup {<<Preset(n, {})>> : n \in Names}
         \cup {f \in {<<Preset(n, {}), Preset(m, {})>> :
                         n \in Names, m \in Names} :
                  f[1].name # f[2].name}

\* printer.c:1172, papplPresetAdd: every preset of the state file is added with
\* _papplSystemAddPreset (printer.c:632-651), which marks the configuration
\* changed.
LoadPresets ==
  /\ tpc["create"] = "load1172"
  /\ \E read \in FilePresets :
       /\ Len(read) <= MaxPresets
       /\ presets' = read
       /\ config_changed' = (config_changed \/ Len(read) > 0)
  /\ TGoto("create", "publish1205")
  /\ UNCHANGED <<jvars, attrvars, writer, jps, routes, status, req>>

\* printer.c:1185-1228: job-presets-supported is added to printer->attrs under
\* the system's lock, one member per preset holding its name only;
\* ippAddCollections adds nothing for a count of 0.
PublishAtCreate ==
  /\ tpc["create"] = "publish1205"
  /\ jps' = IF Len(presets) = 0 THEN jps
            ELSE [present |-> TRUE,
                  members |-> [k \in 1..Len(presets) |->
                                 Member("name", presets[k].name, {})]]
  /\ config_changed' = TRUE
  /\ TGoto("create", "routes1319")
  /\ UNCHANGED <<jvars, attrvars, writer, presets, routes, status, req>>

\* printer.c:1319-1369: an edit and a copy route per preset, bound to the
\* preset's name; creation ends with _papplSystemConfigChanged.
RegisterRoutes ==
  /\ tpc["create"] = "routes1319"
  /\ routes' = routes \cup PresetNames
  /\ config_changed' = TRUE
  /\ TGoto("create", "done")
  /\ UNCHANGED <<jvars, attrvars, writer, presets, jps, status, req>>

\* papplPrinterAddPresetCreate: the new preset is appended to printer->presets,
\* its routes are registered and, as for every preset add, the configuration
\* is marked changed.
AddPresetCreate(n, v) ==
  /\ presets' = Append(presets, Preset(n, v))
  /\ routes' = routes \cup {n}
  /\ config_changed' = TRUE

\* printer-webif.c:1173-1283, a POST of the create form: the name is compared
\* with the names of the printer's presets; a clash ends the request.
PresetCreate ==
  /\ Created /\ tpc["web"] = "idle"
  /\ Len(presets) < MaxPresets
  /\ \E n \in Names, v \in SUBSET Settings :
       IF n \in PresetNames
       THEN /\ status' = "NameConflict"
            /\ UNCHANGED <<tpc, req>>
       ELSE /\ req' = [op |-> "create", name |-> n, vals |-> v]
            /\ TGoto("web", "lock1497")
            /\ UNCHANGED status
  /\ UNCHANGED <<jvars, attrvars, writer, presets, jps, routes, config_changed>>

\* printer-webif.c:1497
PresetCreateLock ==
  /\ tpc["web"] = "lock1497"
  /\ writer = "none" /\ readers = {}
  /\ writer' = "web"
  /\ TGoto("web", "publish1499")
  /\ UNCHANGED <<jvars, attrvars, presetvars>>

\* printer-webif.c:1499-1541: the new collection is appended to the members of
\* job-presets-supported, or the attribute is added with this one member.
PresetCreatePublish ==
  /\ tpc["web"] = "publish1499"
  /\ jps' = [present |-> TRUE,
             members |-> Append(jps.members,
                                Member("preset_name", req.name, req.vals))]
  /\ TGoto("web", "unlock1544")
  /\ UNCHANGED <<jvars, attrvars, writer, presets, routes, config_changed,
                 status, req>>

\* printer-webif.c:1544-1546
PresetCreateUnlock ==
  /\ tpc["web"] = "unlock1544"
  /\ writer' = "none"
  /\ config_changed' = TRUE
  /\ TGoto("web", "add1549")
  /\ UNCHANGED <<jvars, attrvars, presets, jps, routes, status, req>>

\* printer-webif.c:1549-1550
PresetCreateAdd ==
  /\ tpc["web"] = "add1549"
  /\ AddPresetCreate(req.name, req.vals)
  /\ status' = "saved"
  /\ req' = NoRequest
  /\ TGoto("web", "idle")
  /\ UNCHANGED <<jvars, attrvars, writer, jps>>

\* A copy that adds the preset without comparing its name with the others.
PresetCopyNoNameCheck ==
  /\ Created /\ tpc["web"] = "idle"
  /\ Len(presets) < MaxPresets
  /\ \E r \in routes, n \in Names, v \in SUBSET Settings :
       /\ AddPresetCreate(n, v)
       /\ status' = IF n \in PresetNames THEN "NameConflict" ELSE "saved"
  /\ UNCHANGED <<jvars, attrvars, writer, tpc, jps, req>>

\* printer-webif.c:347-620, a POST of the copy form of a registered route: the
\* name is compared with the names of the printer's presets; a clash ends the
\* request, otherwise the preset is added.  printer->attrs is not touched.
PresetCopy ==
  /\ Created /\ tpc["web"] = "idle"
  /\ Len(presets) < MaxPresets
  /\ \E r \in routes, n \in Names, v \in SUBSET Settings :
       IF n \in PresetNames
       THEN /\ status' = "NameConflict"
            /\ UNCHANGED <<presets, routes, config_changed>>
       ELSE /\ AddPresetCreate(n, v)
            /\ status' = "saved"
  /\ UNCHANGED <<jvars, attrvars, writer, tpc, jps, req>>

\* The preset a request through the route bound to name r works on
\* (printer-webif.c:2048-2062, 399-414): the first preset of that name, or the
\* last preset of the array when the loop ends without a match.
Located(r) ==
  IF r \in PresetNames
  THEN CHOOSE k \in 1..Len(presets) :
         presets[k].name = r /\ \A m \in 1..(k - 1) : presets[m].name # r
  ELSE Len(presets)

\* A collection pointer that was read from outside the array funct allocated.
Garbage == Member("garbage", "?", {})

\* funct, printer-webif.c:1935-1990: the index of the member whose preset_name
\* is old (the last such member; 0 stands for the -1 of no match).
StoreIndex(members, old) ==
  LET hits == {k \in 1..Len(members) :
                 members[k].key = "preset_name" /\ members[k].name = old}
  IN  IF hits = {} THEN 0 ELSE CHOOSE k \in hits : \A m \in hits : m <= k

\* printer-webif.c:2288-2319: the members that are published after an edit:
\* count values are taken from the array funct built out of the old members
\* and the new collection col.
EditedMembers(members, col, old, count) ==
  [k \in 1..count |->
     IF k = StoreIndex(members, old) THEN col
     ELSE IF k <= Len(members) THEN members[k]
     ELSE Garbage]

\* printer-webif.c:1996-2270, a POST of the edit form of a registered route.
\* The form carries old_preset_name and old_preset_count (2108-2117), written
\* into the page at 2412-2415 but read back from the client.  The located
\* preset (at remembers its index) takes the form's name and has the check bit
\* of every submitted setting set; no lock is held.
PresetEdit ==
  /\ Created /\ tpc["web"] = "idle"
  /\ Len(presets) > 0
  /\ \E r \in routes, n \in Names, v \in SUBSET Settings,
        old \in Names, count \in 0..MaxPresets :
       LET k == Located(r) IN
         /\ presets' = [presets EXCEPT ![k] = Preset(n, presets[k].vals \cup v)]
         /\ req' = [op |-> "edit", name |-> n, vals |-> v,
                    old |-> old, count |-> count, at |-> k]
  /\ TGoto("web", "lock2290")
  /\ UNCHANGED <<jvars, attrvars, writer, jps, routes, config_changed, status>>

\* printer-webif.c:2290
PresetEditLock ==
  /\ tpc["web"] = "lock2290"
  /\ writer = "none" /\ readers = {}
  /\ writer' = "web"
  /\ TGoto("web", "publish2291")
  /\ UNCHANGED <<jvars, attrvars, presetvars>>

\* printer-webif.c:2291-2319: ippDeleteAttribute, ippAddCollections
PresetEditPublish ==
  /\ tpc["web"] = "publish2291"
  /\ jps' = [present |-> req.count > 0,
             members |-> EditedMembers(jps.members,
                           Member("preset_name", req.name, req.vals),
                           req.old, req.count)]
  /\ TGoto("web", "unlock2321")
  /\ UNCHANGED <<jvars, attrvars, writer, presets, routes, config_changed,
                 status, req>>

\* An edit that ends without _papplSystemConfigChanged.
PresetEditUnlockNoConfigChanged ==
  /\ tpc["web"] = "unlock2321"
  /\ writer' = "none"
  /\ status' = "saved"
  /\ req' = NoRequest
  /\ TGoto("web", "idle")
  /\ UNCHANGED <<jvars, attrvars, presets, jps, routes, config_changed>>

\* printer-webif.c:2321-2327
PresetEditUnlock ==
  /\ tpc["web"] = "unlock2321"
  /\ writer' = "none"
  /\ config_changed' = TRUE
  /\ status' = "saved"
  /\ req' = NoRequest
  /\ TGoto("web", "idle")
  /\ UNCHANGED <<jvars, attrvars, presets, jps, routes>>

NextAttrs ==
  \/ SetDriverDataLock \/ SetDriverDataCopy \/ SetDriverDataDelete
  \/ SetDriverDataMake \/ SetDriverDataUnlock
  \/ PrepareOptionsLock \/ PrepareOptionsFind \/ PrepareOptionsUnlock
  \/ LoadPresets \/ PublishAtCreate \/ RegisterRoutes
  \/ PresetCreate \/ PresetCreateLock \/ PresetCreatePublish
  \/ PresetCreateUnlock \/ PresetCreateAdd
  \/ PresetCopy
  \/ PresetEdit \/ PresetEditLock \/ PresetEditPublish \/ PresetEditUnlock

\* The attribute maps of one printer whose job queue is at rest.
InitAttrs == Init /\ relock = "EDEADLK"

SpecAttrs == InitAttrs /\ [][NextAttrs]_vars

\* --------------------------------------------------- preset deletion
\* papplPresetDelete (spec section 4.5, delete): the preset is removed from the
\* printer's collection, the routes bound to it are removed,
\* job-presets-supported is published again and the configuration is marked
\* changed.
RemoveAt(seq, k) ==
  IF k \in 1..Len(seq) THEN SubSeq(seq, 1, k - 1) \o SubSeq(seq, k + 1, Len(seq))
  ELSE seq

papplPresetDelete(k) ==
  /\ presets' = RemoveAt(presets, k)
  /\ routes' = routes \ {presets[k].name}
  /\ jps' = [present |-> Len(jps.members) > 1 \/ (jps.present /\ k > Len(jps.members)),
             members |-> RemoveAt(jps.members, k)]
  /\ config_changed' = TRUE

\* printer-webif.c:282-299, a POST of the delete form of the route bound to
\* name r: printer->processing_job is read, without a lock; when it is set the
\* request ends with "Printer is currently active."
PresetDeleteCheck ==
  /\ Created /\ tpc["web"] = "idle"
  /\ Len(presets) > 0
  /\ \E r \in routes :
       IF processing_job # NULL
       THEN /\ status' = "PrinterActive"
            /\ UNCHANGED <<tpc, req>>
       ELSE /\ req' = [op |-> "delete", name |-> r]
            /\ TGoto("web", "locate311")
            /\ UNCHANGED status
  /\ UNCHANGED <<jvars, attrvars, writer, presets, jps, routes,
                 config_changed>>

\* printer-webif.c:301-318: the preset of the route's name is located (the
\* last one when no name matches) and handed to papplPresetDelete.
PresetDeleteRemove ==
  /\ tpc["web"] = "locate311"
  /\ papplPresetDelete(Located(req.name))
  /\ status' = "deleted"
  /\ req' = NoRequest
  /\ TGoto("web", "idle")
  /\ UNCHANGED <<jvars, attrvars, writer>>

\* A printer that papplPrinterCreate has created from a state file with one
\* preset: the state RegisterRoutes leaves.
CreatedWithPreset ==
  /\ driver_attrs = "valid"
  /\ driver_data = 0
  /\ readers = {}
  /\ writer = "none"
  /\ tpc = [t \in Threads |-> IF t = "create" THEN "done" ELSE "idle"]
  /\ \E n \in Names :
       /\ presets = <<Preset(n, {})>>
       /\ jps = [present |-> TRUE, members |-> <<Member("name", n, {})>>]
       /\ routes = {n}
  /\ config_changed = TRUE
  /\ status = "none"
  /\ req = NoRequest

InitDelete == CreatedWithPreset /\ FileAtRest /\ QueueAtRest /\ SystemAtRest

NextDelete == Next \/ PresetDeleteCheck \/ PresetDeleteRemove

\* Preset delete requests on a created printer whose jobs are being
\* processed.
SpecDelete == InitDelete /\ [][NextDelete]_vars

\* ---------------------------------------------- the configuration flag
\* papplPrinterDelete, printer.c:1476-1493, on the created printer while no
\* thread works on it: the printer is removed from the system and
\* _papplSystemConfigChanged is called.
DeleteCreatedPrinter ==
  /\ Created
  /\ \A t \in Threads \ {"create"} : tpc[t] = "idle"
  /\ TGoto("create", "deleted")
  /\ config_changed' = TRUE
  /\ status' = "printer deleted"
  /\ UNCHANGED <<jvars, attrvars, writer, presets, jps, routes, req>>

\* The flusher that rewrites the configuration when it finds the flag set,
\* and clears the flag.
FlushConfig ==
  /\ config_changed
  /\ config_changed' = FALSE
  /\ UNCHANGED <<jvars, attrvars, writer, tpc, presets, jps, routes, status,
                 req>>

NextConfig ==
  \/ NextAttrs
  \/ PresetDeleteCheck \/ PresetDeleteRemove
  \/ DeleteCreatedPrinter
  \/ FlushConfig

\* Creation of a printer, preset requests and the deletion of the printer,
\* with a flusher that clears the configuration flag at any time.
SpecConfig == InitAttrs /\ [][NextConfig]_vars

\* ------------------------------------------------- the preset state file
\* The settings of a preset that the state file carries in this model, and the
\* keywords each can have.
FSettings == {"print-quality", "print-color-mode"}
Keywords(s) == IF s = "print-quality" THEN {"draft", "high"}
                                      ELSE {"monochrome", "color"}

\* A preset as the printer holds it: a value and a check bit per setting.
SavedPresets(id) ==
  {[id |-> id, name |-> n,
    value |-> [s \in FSettings |-> IF s = "print-quality" THEN q ELSE c],
    check |-> [s \in FSettings |-> IF s = "print-quality" THEN qb ELSE cb]] :
     n \in Names, q \in Keywords("print-quality"),
     c \in Keywords("print-color-mode"), qb \in BOOLEAN, cb \in BOOLEAN}

\* What can be wrong with the opener line of a preset in the file.
Damages == {"none", "id", "name"}

\* The lines the state file holds for a preset: the opener, one line
\* "<attribute-name> <value> <is-set-bit>" per setting, the closer.  tokens
\* are the whitespace-separated tokens that follow the attribute name.
Lines(p, damage) ==
  << [tag |-> "<Preset",
      id |-> IF damage = "id" THEN 0 ELSE p.id,
      name |-> IF damage = "name" THEN "none" ELSE p.name],
     [tag |-> "print-quality-default",
      tokens |-> <<p.value["print-quality"],
                   IF p.check["print-quality"] THEN "1" ELSE "0">>],
     [tag |-> "print-color-mode-default",
      tokens |-> <<p.value["print-color-mode"],
                   IF p.check["print-color-mode"] THEN "1" ELSE "0">>],
     [tag |-> "</Preset>"] >>

\* The state file is written from the presets of a printer, and an opener line
\* may have been damaged since.
WriteStateFile ==
  /\ fpc = "write"
  /\ \E p1 \in SavedPresets(1), d1 \in Damages :
       \/ /\ saved' = <<p1>>
          /\ file' = Lines(p1, d1)
       \/ /\ MaxPresets >= 2
          /\ \E p2 \in SavedPresets(2), d2 \in Damages :
               /\ saved' = <<p1, p2>>
               /\ file' = Lines(p1, d1) \o Lines(p2, d2)
  /\ fpc' = "outer"
  /\ UNCHANGED <<OutsideFile, linenum, preset, loaded>>

\* printer.c:421: the opener is refused unless it has exactly the options id
\* and name with id > 0.
BadPresetDefinition(l) == l.id <= 0 \/ l.name = "none"

\* printer.c:408-418, 429-430: a calloc'ed preset, every value 0 and every
\* check bit false, with the name and id of the opener.
NewPreset(l) ==
  [id |-> l.id, name |-> l.name,
   value |-> [s \in FSettings |-> "0"],
   check |-> [s \in FSettings |-> FALSE]]

\* ippEnumValue("print-quality", value) and _papplColorModeValue(value),
\* printer.c:473-480: read_line hands over everything after the first space of
\* the line; the lookup compares that whole string with each keyword and
\* gives -1 (ippEnumValue) or 0 (_papplColorModeValue) when none is equal.
KeywordValue(s, tokens) ==
  IF Len(tokens) = 1 /\ tokens[1] \in Keywords(s) THEN tokens[1]
  ELSE IF s = "print-quality" THEN "-1" ELSE "0"

\* printer.c:396-425 and 567-571: the outer loop of papplPresetAdd reads a
\* line; a well-formed opener starts a preset, a malformed one breaks out of
\* the loop, end of file ends it, any other line is passed over.
ReadLineOuter ==
  /\ fpc = "outer"
  /\ IF linenum >= Len(file)
     THEN /\ fpc' = "done"
          /\ UNCHANGED <<linenum, preset>>
     ELSE LET l == file[linenum + 1] IN
          /\ linenum' = linenum + 1
          /\ IF l.tag # "<Preset"
             THEN UNCHANGED <<fpc, preset>>
             ELSE IF BadPresetDefinition(l)
             THEN /\ fpc' = "done"
                  /\ UNCHANGED preset
             ELSE /\ fpc' = "inner"
                  /\ preset' = NewPreset(l)
  /\ UNCHANGED <<OutsideFile, file, saved, loaded>>

\* printer.c:436-565: the inner loop reads the lines of the preset; the closer
\* adds the preset with _papplSystemAddPreset and leaves the loop, a setting
\* line assigns the value, end of file leaves the loop.
ReadLineInner ==
  /\ fpc = "inner"
  /\ IF linenum >= Len(file)
     THEN /\ fpc' = "outer"
          /\ UNCHANGED <<linenum, preset, loaded>>
     ELSE LET l == file[linenum + 1] IN
          /\ linenum' = linenum + 1
          /\ IF l.tag = "</Preset>"
             THEN /\ loaded' = Append(loaded, preset)
                  /\ fpc' = "outer"
                  /\ UNCHANGED preset
             ELSE IF l.tag = "print-quality-default"
             THEN /\ preset' = [preset EXCEPT !.value["print-quality"] =
                                  KeywordValue("print-quality", l.tokens)]
                  /\ UNCHANGED <<fpc, loaded>>
             ELSE IF l.tag = "print-color-mode-default"
             THEN /\ preset' = [preset EXCEPT !.value["print-color-mode"] =
                                  KeywordValue("print-color-mode", l.tokens)]
                  /\ UNCHANGED <<fpc, loaded>>
             ELSE UNCHANGED <<fpc, preset, loaded>>
  /\ UNCHANGED <<OutsideFile, file, saved>>

NextFile == WriteStateFile \/ ReadLineOuter \/ ReadLineInner

\* A state file is written and then read by papplPresetAdd into a fresh
\* printer.
SpecFile == InitAttrs /\ [][NextFile]_vars

\* The opener lines of the state file, in file order.
Openers == SelectSeq(file, LAMBDA l : l.tag = "<Preset")

\* ------------------------------------------- printers of the system
\* Printer names are sequences of characters; paths are sequences of
\* characters and path segments.
PrinterNames == {<<"x">>, <<"x", " ">>, <<"y">>}

\* printer.c:855: the characters that are converted to an underscore.
Reserved == {" ", "/", "\\", "'", "?", "#"}
Digits == {"0", "1", "2", "3", "4", "5", "6", "7", "8", "9"}

\* printer.c:860-871: duplicate underscores are removed and a trailing
\* underscore is cut off, scanning from position k.
RECURSIVE Squeeze(_, _)
Squeeze(str, k) ==
  IF k > Len(str) THEN str
  ELSE IF str[k] = "_" /\ k < Len(str) /\ str[k + 1] = "_"
       THEN Squeeze(SubSeq(str, 1, k - 1) \o SubSeq(str, k + 1, Len(str)), k)
  ELSE IF str[k] = "_" /\ k = Len(str) THEN SubSeq(str, 1, k - 1)
  ELSE Squeeze(str, k + 1)

\* printer.c:844-875: the resource path derived from the printer name, without
\* its leading "/ipp/print" (this is printer->uriname, printer.c:935).
Derived(name) ==
  IF multi_queue
  THEN LET raw  == IF name[1] \in Digits THEN <<"_">> \o name ELSE name
           conv == [k \in 1..Len(raw) |->
                      IF raw[k] \in Reserved THEN "_" ELSE raw[k]]
       IN  <<"/">> \o Squeeze(conv, 1)
  ELSE <<>>

\* printer.c:887: for (n = 2; n < 10; n ++), the last instance number tried.
LastInstance == 9

\* printer.c:889: "%s_%d"
Instance(res, n) == res \o <<"_", ToString(n)>>

\* papplSystemFindPrinter(system, resource, 0, NULL): the printers of the
\* system that have this resource path.
FindPrinter(res) == {p \in printers : p.resource = res}

\* The loop that takes the lowest acceptable instance number whatever the
\* printers are.
FirstFreeIgnoresPrinters(res, n) ==
  IF n >= LastInstance + 1 THEN n ELSE 2

\* printer.c:887-892: for (n = 2; n < 10; n ++) with a break at the first
\* instance no printer has; the value of n after the loop.
RECURSIVE FirstFree(_, _)
FirstFree(res, n) ==
  IF n >= LastInstance + 1 THEN n
  ELSE IF FindPrinter(Instance(res, n)) = {} THEN n
  ELSE FirstFree(res, n + 1)

\* printer.c:844-901: the resource path is derived from the name; when a
\* printer has it already, the call fails if that printer has the same name
\* and otherwise takes the first free instance, failing when there is none.
CreateFind(c) ==
  /\ cpc[c] = "idle"
  /\ nobj < MaxPrinters
  /\ \E name \in PrinterNames :
       LET res == Derived(name) IN
       /\ cname' = [cname EXCEPT ![c] = name]
       /\ IF FindPrinter(res) = {}
          THEN /\ cres' = [cres EXCEPT ![c] = res]
               /\ cpc' = [cpc EXCEPT ![c] = "add1168"]
               /\ cerrno' = [cerrno EXCEPT ![c] = "none"]
          ELSE \E found \in FindPrinter(res) :
               IF found.name = name \/ FirstFree(res, 2) >= LastInstance + 1
               THEN /\ cerrno' = [cerrno EXCEPT ![c] = "EEXIST"]
                    /\ UNCHANGED <<cres, cpc>>
               ELSE /\ cres' = [cres EXCEPT ![c] =
                                  Instance(res, FirstFree(res, 2))]
                    /\ cpc' = [cpc EXCEPT ![c] = "add1168"]
                    /\ cerrno' = [cerrno EXCEPT ![c] = "none"]
  /\ UNCHANGED <<OutsideSystem, multi_queue, printers, next_printer_id,
                 resources, deleted, nobj, cprinter>>

\* printer.c:904-1172: the printer object is allocated and filled in,
\* _papplSystemAddPrinter enters it in system->printers with the next printer
\* id, and papplPresetAdd loads its presets.
CreateAdd(c) ==
  /\ cpc[c] = "add1168"
  /\ \E ps \in SUBSET {"a"} :
       LET new == [obj |-> nobj + 1, name |-> cname[c], resource |-> cres[c],
                   id |-> next_printer_id, presets |-> ps] IN
       /\ printers' = printers \cup {new}
       /\ cprinter' = [cprinter EXCEPT ![c] = new]
  /\ nobj' = nobj + 1
  /\ next_printer_id' = next_printer_id + 1
  /\ cpc' = [cpc EXCEPT ![c] = "routes1272"]
  /\ UNCHANGED <<OutsideSystem, multi_queue, resources, deleted, cname, cres,
                 cerrno>>

\* The callback data of a route: the printer, or a resource_data_t binding of
\* the printer and a preset name.
PrinterData(p) == [kind |-> "printer", printer |-> p.obj, preset_name |-> "none"]
ResourceData(p, n) == [kind |-> "binding", printer |-> p.obj, preset_name |-> n]
Route(path, cbdata) == [path |-> path, cbdata |-> cbdata]

\* printer.c:1272-1343: the routes papplPrinterCreate registers for a printer
\* (of the pages with the printer as callback data the home page, the delete
\* page and the two preset pages are kept), in the order of registration.
RoutesOf(p) ==
  LET uriname == p.resource
      fixed == << Route(uriname \o <<"/">>, PrinterData(p)) >>
               \o (IF multi_queue
                   THEN << Route(uriname \o <<"/", "delete">>, PrinterData(p)) >>
                   ELSE << >>)
               \o << Route(uriname \o <<"/", "presets">>, PrinterData(p)),
                     Route(uriname \o <<"/", "presets", "/", "create">>,
                           PrinterData(p)) >>
      bound == IF "a" \in p.presets
               THEN << Route(uriname \o <<"/", "presets", "/", "a", "/", "edit">>,
                             ResourceData(p, "a")),
                       Route(uriname \o <<"/", "presets", "/", "a", "/", "copy">>,
                             ResourceData(p, "a")) >>
               ELSE << >>
  IN  fixed \o bound

\* printer.c:1272-1369: the web pages of the new printer are registered and
\* the printer is returned.
CreateRoutes(c) ==
  /\ cpc[c] = "routes1272"
  /\ resources' = resources \o RoutesOf(cprinter[c])
  /\ cpc' = [cpc EXCEPT ![c] = "idle"]
  /\ UNCHANGED <<OutsideSystem, multi_queue, printers, next_printer_id, deleted,
                 nobj, cname, cres, cprinter, cerrno>>

\* strncmp(r->path, prefix, prefixlen) = 0
HasPrefix(path, prefix) ==
  Len(path) >= Len(prefix) /\ SubSeq(path, 1, Len(prefix)) = prefix

\* printer.c:1424: the test that selects the routes of the printer.
Swept(r, p) ==
  (r.cbdata.kind = "printer" /\ r.cbdata.printer = p.obj)
    \/ HasPrefix(r.path, p.resource \o <<"/">>)

\* printer.c:1422-1426: the loop over system->resources with
\* cupsArrayGetFirst / cupsArrayGetNext; cupsArrayRemove of the current
\* element moves the current index back, so the next element is not skipped.
RECURSIVE SweepLoop(_, _, _)
SweepLoop(arr, k, p) ==
  IF k > Len(arr) THEN arr
  ELSE IF Swept(arr[k], p)
       THEN SweepLoop(SubSeq(arr, 1, k - 1) \o SubSeq(arr, k + 1, Len(arr)), k, p)
  ELSE SweepLoop(arr, k + 1, p)

\* papplPrinterDelete, printer.c:1476-1493, with _papplPrinterDelete,
\* printer.c:1381-1468, which cupsArrayRemove runs on the removed printer:
\* the printer leaves system->printers, its routes are removed and it is
\* freed.
DeletePrinter(p) ==
  /\ p \in printers
  /\ printers' = printers \ {p}
  /\ resources' = SweepLoop(resources, 1, p)
  /\ deleted' = deleted \cup {p.obj}
  /\ UNCHANGED <<OutsideSystem, multi_queue, next_printer_id, nobj, cpc, cname,
                 cres, cprinter, cerrno>>

NextSystem ==
  \/ \E c \in Creators : CreateFind(c) \/ CreateAdd(c) \/ CreateRoutes(c)
  \/ \E p \in printers : DeletePrinter(p)

InitSystem ==
  /\ AttrsAtRest /\ FileAtRest /\ QueueAtRest /\ relock = "EDEADLK"
  /\ multi_queue \in BOOLEAN
  /\ SystemEmpty

\* Printers are created by two threads and deleted.
SpecSystem == InitSystem /\ [][NextSystem]_vars

\* ------------------------------------- deleting the printer of the jobs
\* _papplPrinterWebDelete, printer-webif.c:3336-3360: the delete form is
\* posted; printer->processing_job is read without a lock, and when it is set
\* the request is answered with "Printer is currently active.".
WebDeleteCheck ==
  /\ dpc = "idle"
  /\ ~is_deleted
  /\ dpc' = IF processing_job # NULL THEN "active3356" ELSE "delete3362"
  /\ UNCHANGED <<qvars, avars, fvars, svars, rvars, wvars, is_deleted, freed>>

\* The refused request is answered and the page can be posted again.
WebDeleteRefused ==
  /\ dpc = "active3356"
  /\ dpc' = "idle"
  /\ UNCHANGED <<qvars, avars, fvars, svars, rvars, wvars, is_deleted, freed>>

\* printer-webif.c:3362 with printer.c:1476-1489 and 1392-1403:
\* papplPrinterDelete removes the printer from system->printers, which runs
\* _papplPrinterDelete; under the printer's lock is_deleted is set, and the
\* wait is for raw_active and usb_active only.
WebDeleteMark ==
  /\ dpc = "delete3362"
  /\ plock = NULL
  /\ is_deleted' = TRUE
  /\ dpc' = "free1405"
  /\ UNCHANGED <<qvars, avars, fvars, svars, rvars, wvars, freed>>

\* printer.c:1405-1467: listeners are closed, the routes and the job arrays
\* are deleted and the printer is freed.
WebDeleteFree ==
  /\ dpc = "free1405"
  /\ freed' = TRUE
  /\ dpc' = "done"
  /\ UNCHANGED <<qvars, avars, fvars, svars, rvars, wvars, is_deleted>>

\* job-process.c:141-144: the processor finds is_deleted set and calls
\* papplPrinterDelete; the printer is no longer in system->printers, so
\* nothing is removed, and the thread returns.
DrainDeleted(j) ==
  /\ pc[j] = "drain141"
  /\ is_deleted
  /\ Goto(j, "done")
  /\ ThreadExit(j)
  /\ UNCHANGED <<jobvars, arrays, processing_job, pstate, device, clean_time,
                 plock, jlock, relock, pvars, page, copies, i>>

\* A thread that reads or writes the freed printer can also fault, which ends
\* the process.
Fault(j) ==
  /\ freed
  /\ pc[j] \notin {"none", "done", "fault"}
  /\ Goto(j, "fault")
  /\ UNCHANGED <<jobvars, arrays, processing_job, pstate, device, clean_time,
                 plock, jlock, relock, pvars, locals>>

NextPrinterDelete ==
  \/ Next
  \/ WebDeleteCheck \/ WebDeleteRefused \/ WebDeleteMark \/ WebDeleteFree
  \/ \E j \in Jobs : DrainDeleted(j) \/ Fault(j)

InitPrinterDelete == Init /\ relock = "EDEADLK"

\* The printer's delete page is posted while its jobs are processed.
SpecPrinterDelete == InitPrinterDelete /\ [][NextPrinterDelete]_vars

\* ------------------------------------- the raster streamer, row by row
\* process_raster for one job in state processing, with every call of a driver
\* callback a step of its own.
OutsideRaster == <<qvars, avars, fvars, svars, dvars, wvars>>

\* The callback that returned false, kept if it is the first one.
Failure(cb) == IF failed = "none" THEN cb ELSE failed

\* job-process.c:710-730: the spool file and the stream are opened and the
\* first header is read; any of them failing goes to abort_job.
StreamOpen ==
  /\ rpc = "ras710"
  /\ \E ok \in BOOLEAN : rpc' = IF ok THEN "ras732" ELSE "abort777"
  /\ UNCHANGED <<OutsideRaster, rstate, rcanceled, rpage, y, failed, late_rows,
                 rstartjob_ok, rendjob_calls>>

\* job-process.c:732-733: rstartjob
StreamStartJob ==
  /\ rpc = "ras732"
  /\ \E ok \in BOOLEAN :
       /\ rpc' = IF ok THEN "ras738" ELSE "abort777"
       /\ failed' = IF ok THEN failed ELSE Failure("rstartjob")
       /\ rstartjob_ok' = ok
  /\ UNCHANGED <<OutsideRaster, rstate, rcanceled, rpage, y, late_rows,
                 rendjob_calls>>

\* job-process.c:738-746: page ++, rstartpage, y = 0
StreamStartPage ==
  /\ rpc = "ras738"
  /\ rpage' = rpage + 1
  /\ \E ok \in BOOLEAN :
       /\ rpc' = IF ok THEN "ras746" ELSE "abort777"
       /\ failed' = IF ok THEN failed ELSE Failure("rstartpage")
  /\ y' = 0
  /\ UNCHANGED <<OutsideRaster, rstate, rcanceled, late_rows, rstartjob_ok,
                 rendjob_calls>>

\* job-process.c:746-752: one round of the loop over the rows.  A row that was
\* read is handed to rwrite, whose result is not looked at; a row that cannot
\* be read ends the loop.
StreamRow ==
  /\ rpc = "ras746"
  /\ IF y < MaxRows
     THEN \E read \in BOOLEAN, ok \in BOOLEAN :
            IF read
            THEN /\ failed' = IF ok THEN failed ELSE Failure("rwrite")
                 /\ late_rows' = (late_rows \/ failed # "none")
                 /\ y' = y + 1
                 /\ rpc' = rpc
            ELSE /\ rpc' = "ras756"
                 /\ UNCHANGED <<y, failed, late_rows>>
     ELSE /\ rpc' = "ras756"
          /\ UNCHANGED <<y, failed, late_rows>>
  /\ UNCHANGED <<OutsideRaster, rstate, rcanceled, rpage, rstartjob_ok,
                 rendjob_calls>>

\* job-process.c:756-766: rendpage; a page that ended early runs rendjob and
\* aborts; otherwise the next header is read.
StreamEndPage ==
  /\ rpc = "ras756"
  /\ \E ok \in BOOLEAN, endjob_ok \in BOOLEAN, more \in BOOLEAN :
       IF ~ok
       THEN /\ rpc' = "abort777"
            /\ failed' = Failure("rendpage")
            /\ rendjob_calls' = rendjob_calls
       ELSE IF y < MaxRows
       THEN /\ rpc' = "abort777"
            /\ failed' = IF endjob_ok THEN failed ELSE Failure("rendjob")
            /\ rendjob_calls' = rendjob_calls + 1
       ELSE /\ rpc' = IF more /\ rpage < MaxPages THEN "ras738" ELSE "ras768"
            /\ failed' = failed
            /\ rendjob_calls' = rendjob_calls
  /\ UNCHANGED <<OutsideRaster, rstate, rcanceled, rpage, y, late_rows,
                 rstartjob_ok>>

\* job-process.c:768-774: rendjob, then the stream and the file are closed and
\* the function returns.
StreamEndJob ==
  /\ rpc = "ras768"
  /\ \E ok \in BOOLEAN :
       /\ rpc' = IF ok THEN "fin119" ELSE "abort777"
       /\ failed' = IF ok THEN failed ELSE Failure("rendjob")
  /\ rendjob_calls' = rendjob_calls + 1
  /\ UNCHANGED <<OutsideRaster, rstate, rcanceled, rpage, y, late_rows,
                 rstartjob_ok>>

\* abort_job: job-process.c:777-785
StreamAbort ==
  /\ rpc = "abort777"
  /\ rstate' = "aborted"
  /\ rpc' = "fin119"
  /\ UNCHANGED <<OutsideRaster, rcanceled, rpage, y, failed, late_rows,
                 rstartjob_ok, rendjob_calls>>

\* job-process.c:119-122: the state the job ends in.
StreamFinish ==
  /\ rpc = "fin119"
  /\ rstate' = FinalState(rstate, rcanceled)
  /\ rpc' = "done"
  /\ UNCHANGED <<OutsideRaster, rcanceled, rpage, y, failed, late_rows,
                 rstartjob_ok, rendjob_calls>>

\* The job is canceled while it is processed: is_canceled is set by another
\* thread (papplPrinterCancelAllJobs, printer.c).
StreamCancel ==
  /\ rpc # "done"
  /\ ~rcanceled
  /\ rcanceled' = TRUE
  /\ UNCHANGED <<OutsideRaster, rpc, rstate, rpage, y, failed, late_rows,
                 rstartjob_ok, rendjob_calls>>

NextRaster ==
  \/ StreamOpen \/ StreamStartJob \/ StreamStartPage \/ StreamRow
  \/ StreamEndPage \/ StreamEndJob \/ StreamAbort \/ StreamFinish
  \/ StreamCancel

\* A job in state processing whose format is a raster format, at the start of
\* process_raster.
InitRaster == Init /\ relock = "EDEADLK"

\* One raster job is streamed to the driver.
SpecRaster == InitRaster /\ [][NextRaster]_vars

\* ------------------------------------------------- dispatch by format
\* The formats a driver can name as its own: one that is neither a raster nor
\* an image format, or one of those.
NativeFormats == {"raw", "raster", "png"}

InitDispatch ==
  /\ AttrsAtRest /\ FileAtRest /\ QueueEmpty /\ SystemAtRest
  /\ relock = "EDEADLK"
  /\ native_format \in NativeFormats

\* Jobs of all formats on printers whose drivers differ in their own format.
SpecDispatch == InitDispatch /\ [][Next]_vars

\* ----------------------------------------- the PNG renderer, pixel by pixel
\* process_png for one job in state processing, with every call of a driver
\* callback and every pixel read a step of its own.  Two runs on the same
\* input and the same driver go through the steps together; they differ only
\* where a step has more than one outcome.
OutsidePng == <<qvars, avars, fvars, svars, dvars, rvars, native_format,
                ovars>>
PngInputs == <<options, png, pixels, pointer_bits>>

\* unsigned is 32 bits wide.  With images and pages of these sizes the only
\* unsigned value of process_png that leaves 0 .. 2^31 - 1 is xstep, which is
\* written as the number s with -2^31 < s < 2^31 of the same residue modulo
\* 2^32: s >= 0 is xstep itself and s < 0 stands for xstep = 2^32 + s.  An
\* address is written as the pair of wraps and pixptr that stands for
\* pixels + wraps * 2^32 + pixptr.

\* The callback cb is called (for rwrite: with row yy).
Call(cb, yy) == calls' = Append(calls, [cb |-> cb, y |-> yy])

\* The address is inside the buffer of png.width * png.height bytes.
InBuffer(p) ==
  p.wraps = 0 /\ 0 <= p.pixptr /\ p.pixptr < png.width * png.height

\* job-process.c:221 and 280-285: options.dither is cleared by the memset and
\* the code that fills it is compiled out.
Dither(yy, xx) == 0

\* job-process.c:477-489: the orientation the switch at 491 sees.
Orientation ==
  IF options.orientation_requested = "none"
  THEN IF png.width > png.height /\ options.cupsWidth < options.cupsHeight
       THEN "landscape" ELSE "portrait"
  ELSE options.orientation_requested

\* job-process.c:495-499, 511-515, 527-531, 543-547 (pixbase as an offset
\* from pixels)
Rotation(o) ==
  CASE o = "reverse-portrait" ->
         [pixbase |-> png.width * png.height - 1, png_width |-> png.width,
          png_height |-> png.height, xdir |-> -1, ydir |-> -png.width]
    [] o = "landscape" ->
         [pixbase |-> png.width - 1, png_width |-> png.height,
          png_height |-> png.width, xdir |-> png.width, ydir |-> -1]
    [] o = "reverse-landscape" ->
         [pixbase |-> (png.height - 1) * png.width, png_width |-> png.height,
          png_height |-> png.width, xdir |-> -png.width, ydir |-> 1]
    [] OTHER ->
         [pixbase |-> 0, png_width |-> png.width, png_height |-> png.height,
          xdir |-> 1, ydir |-> png.width]

\* job-process.c:501-507 (and 517-523, 533-539, 549-555) for an image that is
\* w by h after the rotation.
FitScale(w, h, iwidth, iheight) ==
  LET xsize == iwidth
      ysize == (xsize * h) \div w
  IN  IF ysize > iheight
      THEN [xsize |-> (iheight * w) \div h, ysize |-> iheight]
      ELSE [xsize |-> xsize, ysize |-> ysize]

\* pixptr += step for an unsigned step: a 64-bit pointer moves forward by
\* step; a 32-bit pointer wraps, which for a step of 2^31 or more is a move
\* backward by 2^32 - step.
Advance(p, step) ==
  [wraps |-> IF pointer_bits = 64 /\ step < 0 THEN p.wraps + 1 ELSE p.wraps,
   pixptr |-> p.pixptr + step]

\* job-process.c:432-447
RenderOptions ==
  /\ ppc = "png432"
  /\ LET res == options.printer_resolution
         iwidth == options.cupsWidth -
                     ((options.left_margin + options.right_margin) * res) \div 2540
         iheight == options.cupsHeight -
                     ((options.bottom_margin + options.top_margin) * res) \div 2540
     IN  /\ scale' = [scale EXCEPT
                        !.ileft = (options.left_margin * res) \div 2540,
                        !.itop = (options.top_margin * res) \div 2540,
                        !.iwidth = iwidth, !.iheight = iheight]
         /\ ppc' = IF iwidth = 0 \/ iheight = 0 THEN "abort679" ELSE "png455"
  /\ UNCHANGED <<OutsidePng, PngInputs, png_state, pos, byte, line, killed,
                 calls>>

\* job-process.c:449-474: the file is opened and decoded.
RenderLoad ==
  /\ ppc = "png455"
  /\ \E ok \in BOOLEAN : ppc' = IF ok THEN "png477" ELSE "abort679"
  /\ UNCHANGED <<OutsidePng, PngInputs, png_state, scale, pos, byte, line,
                 killed, calls>>

\* job-process.c:477-557
RenderScale ==
  /\ ppc = "png477"
  /\ LET rot == Rotation(Orientation)
         fit == FitScale(rot.png_width, rot.png_height, scale.iwidth,
                         scale.iheight)
     IN  scale' = [scale EXCEPT
                     !.pixbase = rot.pixbase, !.png_width = rot.png_width,
                     !.png_height = rot.png_height, !.xdir = rot.xdir,
                     !.ydir = rot.ydir, !.xsize = fit.xsize,
                     !.ysize = fit.ysize]
  /\ ppc' = "png559"
  /\ UNCHANGED <<OutsidePng, PngInputs, png_state, pos, byte, line, killed,
                 calls>>

\* job-process.c:559-565.  With xsize = 0 the two divisions at 564-565 are
\* divisions by zero: the process is ended by SIGFPE, or the division yields
\* 0 and the remainder the dividend.
RenderStep ==
  /\ ppc = "png559"
  /\ LET xstart == (scale.ileft + (scale.iwidth - scale.xsize) \div 2)
         ystart == (scale.itop + (scale.iheight - scale.ysize) \div 2)
         placed == [scale EXCEPT
                      !.xstart = xstart, !.xend = (xstart + scale.xsize),
                      !.ystart = ystart, !.yend = (ystart + scale.ysize)]
     IN  IF scale.xsize = 0
         THEN \E outcome \in {"SIGFPE", "zero"} :
                IF outcome = "SIGFPE"
                THEN /\ scale' = placed
                     /\ killed' = [r \in Runs |-> TRUE]
                     /\ ppc' = "exit"
                ELSE /\ scale' = [placed EXCEPT !.xmod = scale.png_width,
                                                !.xstep = 0]
                     /\ killed' = killed
                     /\ ppc' = "png571"
         ELSE /\ scale' = [placed EXCEPT
                             !.xmod = scale.png_width % scale.xsize,
                             !.xstep = ((scale.png_width \div scale.xsize)
                                                * scale.xdir)]
              /\ killed' = killed
              /\ ppc' = "png571"
  /\ UNCHANGED <<OutsidePng, PngInputs, png_state, pos, byte, line, calls>>

\* job-process.c:580, the test of the loop over the copies
CopyAt(n) == IF n < options.copies THEN "png582" ELSE "png665"

\* A renderer that ends the page with the last row of the image.
PageEndsWithImage(yy) == "png655"

\* job-process.c:590, 600 and 645, the tests of the three loops over the rows
FromTrailing(yy) == IF yy < options.cupsHeight THEN "png647" ELSE "png655"

FromImage(yy) == IF yy < scale.yend THEN "png602" ELSE FromTrailing(yy)

FromLeading(yy) == IF yy < scale.ystart THEN "png592" ELSE FromImage(yy)

\* job-process.c:571-580: rstartjob
RenderStartJob ==
  /\ ppc = "png571"
  /\ Call("rstartjob", 0)
  /\ \E ok \in BOOLEAN : ppc' = IF ok THEN CopyAt(0) ELSE "abort679"
  /\ pos' = [pos EXCEPT !.i = 0]
  /\ UNCHANGED <<OutsidePng, PngInputs, png_state, scale, byte, line, killed>>

\* job-process.c:582-590: rstartpage, then the line is cleared
RenderStartPage ==
  /\ ppc = "png582"
  /\ Call("rstartpage", 0)
  /\ \E ok \in BOOLEAN :
       IF ok THEN /\ line' = [r \in Runs |-> {}]
                  /\ pos' = [pos EXCEPT !.y = 0]
                  /\ ppc' = FromLeading(0)
       ELSE /\ ppc' = "abort679"
            /\ UNCHANGED <<line, pos>>
  /\ UNCHANGED <<OutsidePng, PngInputs, png_state, scale, byte, killed>>

\* job-process.c:590-597: a blank row above the image
RenderLeadingRow ==
  /\ ppc = "png592"
  /\ Call("rwrite", pos.y)
  /\ \E ok \in BOOLEAN :
       IF ok THEN /\ pos' = [pos EXCEPT !.y = pos.y + 1]
                  /\ ppc' = FromLeading(pos.y + 1)
       ELSE ppc' = "abort679" /\ pos' = pos
  /\ UNCHANGED <<OutsidePng, PngInputs, png_state, scale, byte, line, killed>>

\* job-process.c:602-605: the source row of output row y, and the start of
\* the loop over its pixels
RenderRowStart ==
  /\ ppc = "png602"
  /\ pos' = [pos EXCEPT
               !.pixptr = scale.pixbase + scale.ydir *
                   (((pos.y - scale.ystart) * scale.png_height)
                      \div scale.ysize),
               !.wraps = 0, !.x = scale.xstart, !.xerr = 0]
  /\ byte' = [r \in Runs |-> {}]
  /\ ppc' = IF scale.xstart < scale.xend THEN "png608" ELSE "png633"
  /\ UNCHANGED <<OutsidePng, PngInputs, png_state, scale, line, killed, calls>>

\* What reading *pixptr can give a run: the pixel, when the address is inside
\* the buffer; any byte or SIGSEGV, when it is not.
ReadOutcomes ==
  IF InBuffer(pos)
  THEN {[signal |-> FALSE, value |-> pixels[pos.pixptr + 1]]}
  ELSE {[signal |-> FALSE, value |-> v] : v \in {0, 255}}
         \cup {[signal |-> TRUE, value |-> 0]}

\* job-process.c:608-631: one pixel is read and dithered, and pixptr moves on
RenderPixel ==
  /\ ppc = "png608"
  /\ \E got \in [Runs -> ReadOutcomes] :
       IF \E r \in Runs : got[r].signal
       THEN /\ killed' = [r \in Runs |-> got[r].signal]
            /\ ppc' = "exit"
            /\ UNCHANGED <<pos, byte>>
       ELSE /\ byte' = [r \in Runs |->
                          IF got[r].value <= Dither(pos.y, pos.x)
                          THEN byte[r] \cup {pos.x} ELSE byte[r]]
            /\ LET stepped == Advance(pos, scale.xstep)
                   xerr == pos.xerr + scale.xmod
               IN  pos' = [pos EXCEPT
                             !.wraps = stepped.wraps,
                             !.pixptr = IF xerr >= scale.xsize
                                        THEN stepped.pixptr + scale.xdir
                                        ELSE stepped.pixptr,
                             !.xerr = IF xerr >= scale.xsize
                                      THEN xerr - scale.xsize ELSE xerr,
                             !.x = pos.x + 1]
            /\ ppc' = IF pos.x + 1 < scale.xend THEN "png608" ELSE "png633"
            /\ killed' = killed
  /\ UNCHANGED <<OutsidePng, PngInputs, png_state, scale, line, calls>>

\* job-process.c:633-634: the byte is stored unless it is empty (bit = 128).
\* header.cupsWidth is less than 8 here, so the line is one byte and the
\* store at 625 is not reached.
RenderRowEnd ==
  /\ ppc = "png633"
  /\ line' = IF pos.x % 8 # 0 THEN byte ELSE line
  /\ ppc' = "png636"
  /\ UNCHANGED <<OutsidePng, PngInputs, png_state, scale, pos, byte, killed,
                 calls>>

\* job-process.c:636-641: the row goes to rwrite
RenderImageRow ==
  /\ ppc = "png636"
  /\ Call("rwrite", pos.y)
  /\ \E ok \in BOOLEAN :
       IF ok THEN /\ pos' = [pos EXCEPT !.y = pos.y + 1]
                  /\ ppc' = FromImage(pos.y + 1)
       ELSE ppc' = "abort679" /\ pos' = pos
  /\ UNCHANGED <<OutsidePng, PngInputs, png_state, scale, byte, line, killed>>

\* job-process.c:644-652: a blank row below the image; the line was cleared
\* before the first of them
RenderTrailingRow ==
  /\ ppc = "png647"
  /\ line' = [r \in Runs |-> {}]
  /\ Call("rwrite", pos.y)
  /\ \E ok \in BOOLEAN :
       IF ok THEN /\ pos' = [pos EXCEPT !.y = pos.y + 1]
                  /\ ppc' = FromTrailing(pos.y + 1)
       ELSE ppc' = "abort679" /\ pos' = pos
  /\ UNCHANGED <<OutsidePng, PngInputs, png_state, scale, byte, killed>>

\* job-process.c:655-662: rendpage
RenderEndPage ==
  /\ ppc = "png655"
  /\ Call("rendpage", 0)
  /\ \E ok \in BOOLEAN :
       IF ok THEN /\ pos' = [pos EXCEPT !.i = pos.i + 1]
                  /\ ppc' = CopyAt(pos.i + 1)
       ELSE ppc' = "abort679" /\ pos' = pos
  /\ UNCHANGED <<OutsidePng, PngInputs, png_state, scale, byte, line, killed>>

\* job-process.c:665-676: rendjob
RenderEndJob ==
  /\ ppc = "png665"
  /\ Call("rendjob", 0)
  /\ \E ok \in BOOLEAN : ppc' = IF ok THEN "fin119" ELSE "abort679"
  /\ UNCHANGED <<OutsidePng, PngInputs, png_state, scale, pos, byte, line,
                 killed>>

\* abort_job: job-process.c:679-687
RenderAbort ==
  /\ ppc = "abort679"
  /\ png_state' = "aborted"
  /\ ppc' = "fin119"
  /\ UNCHANGED <<OutsidePng, PngInputs, scale, pos, byte, line, killed, calls>>

\* job-process.c:119-122: the state the job ends in.
RenderFinish ==
  /\ ppc = "fin119"
  /\ png_state' = FinalState(png_state, FALSE)
  /\ ppc' = "done"
  /\ UNCHANGED <<OutsidePng, PngInputs, scale, pos, byte, line, killed, calls>>

NextRender ==
  \/ RenderOptions \/ RenderLoad \/ RenderScale \/ RenderStep
  \/ RenderStartJob \/ RenderStartPage \/ RenderLeadingRow \/ RenderRowStart
  \/ RenderPixel \/ RenderRowEnd \/ RenderImageRow \/ RenderTrailingRow
  \/ RenderEndPage \/ RenderEndJob \/ RenderAbort \/ RenderFinish

Orientations ==
  {"none", "portrait", "landscape", "reverse-landscape", "reverse-portrait"}

\* A PNG job at the start of process_png: an image of up to MaxPng by MaxPng
\* pixels that alternate between black and white, a page of up to MaxDots by
\* MaxDots dots at 300 dpi whose left and top margins are 0 or one dot wide,
\* and a build with 32-bit or 64-bit pointers.
InitRender ==
  /\ AttrsAtRest /\ FileAtRest /\ JobsEmpty /\ SystemAtRest
  /\ relock = "EDEADLK"
  /\ native_format = "raw"
  /\ PngAtStart
  /\ OptionsAtRest
  /\ pointer_bits \in {32, 64}
  /\ png \in [width : 1..MaxPng, height : 1..MaxPng]
  /\ \E first \in {0, 255} :
       pixels = [o \in 1..(png.width * png.height) |->
                   IF o % 2 = 1 THEN first ELSE 255 - first]
  /\ options \in [copies : 0..MaxCopies, orientation_requested : Orientations,
                  left_margin : {0, Margin}, top_margin : {0, Margin},
                  right_margin : {0}, bottom_margin : {0},
                  cupsWidth : 1..MaxDots, cupsHeight : 1..MaxDots,
                  printer_resolution : {300}]

\* One PNG job is rendered.
SpecRender == InitRender /\ [][NextRender]_vars

\* ------------------------------------------------------ prepare_options
\* prepare_options for one job, one option a step.  attrs[l][n] is the set of
\* values the attribute named n has in the map of level l (for the printer
\* and the driver: the attribute named n-default); it is empty when the map
\* has no attribute of that name and of the syntax prepare_options asks for.
OutsideOptions == <<qvars, avars, fvars, svars, dvars, rvars, native_format,
                    gvars>>

\* The result of a lookup that found nothing.
NotFound == [from |-> "none", values |-> {}]

\* A lookup that asks the printer before the job.
FindAttrPrinterFirst(name) ==
  IF attrs["printer"][name] # {}
  THEN [from |-> "printer", values |-> attrs["printer"][name]]
  ELSE IF attrs["job"][name] # {}
  THEN [from |-> "job", values |-> attrs["job"][name]]
  ELSE IF attrs["driver"][name] # {}
  THEN [from |-> "driver", values |-> attrs["driver"][name]]
  ELSE NotFound

\* find_attr, job-process.c:184-201
find_attr(name) ==
  IF attrs["job"][name] # {}
  THEN [from |-> "job", values |-> attrs["job"][name]]
  ELSE IF attrs["printer"][name] # {}
  THEN [from |-> "printer", values |-> attrs["printer"][name]]
  ELSE IF attrs["driver"][name] # {}
  THEN [from |-> "driver", values |-> attrs["driver"][name]]
  ELSE NotFound

\* ippGetInteger(attr, 0), ippGetString(attr, 0, NULL): the one value.
First(attr) == CHOOSE v \in attr.values : TRUE

\* The lookup of name is recorded.
Looked(log, name, attr) ==
  [n \in DOMAIN log \cup {name} |-> IF n = name THEN attr ELSE log[n]]

\* job-process.c:221-232: options is cleared; copies
PrepareCopies ==
  /\ opc = "opt221"
  /\ LET attr == find_attr("copies")
     IN  /\ lookups' = Looked(lookups, "copies", attr)
         /\ prepared' = [Cleared EXCEPT
                           !.copies = IF attr # NotFound THEN First(attr) ELSE 1]
  /\ opc' = "opt234"
  /\ UNCHANGED <<OutsideOptions, attrs>>

\* job-process.c:234-251: media-col, and media when no media-col was found
PrepareMedia ==
  /\ opc = "opt234"
  /\ LET col == find_attr("media-col")
         attr == find_attr("media")
     IN  IF col # NotFound
         THEN /\ lookups' = Looked(lookups, "media-col", col)
              /\ prepared' = [prepared EXCEPT !.media = First(col)]
         ELSE /\ lookups' = Looked(Looked(lookups, "media-col", col), "media", attr)
              /\ prepared' = [prepared EXCEPT
                                !.media = IF attr # NotFound THEN First(attr)
                                          ELSE prepared.media]
  /\ opc' = "opt293"
  /\ UNCHANGED <<OutsideOptions, attrs>>

\* job-process.c:293-295: print-darkness
PrepareDarkness ==
  /\ opc = "opt293"
  /\ LET attr == find_attr("print-darkness")
     IN  /\ lookups' = Looked(lookups, "print-darkness", attr)
         /\ prepared' = [prepared EXCEPT
                           !.print_darkness = IF attr # NotFound THEN First(attr)
                                              ELSE prepared.print_darkness]
  /\ opc' = "done"
  /\ UNCHANGED <<OutsideOptions, attrs>>

\* The attribute maps: an integer or nothing for copies and print-darkness, a
\* size or nothing for media-col and media.
AttrMaps ==
  {[n \in OptionNames |->
      CASE n = "copies" -> c [] n = "print-darkness" -> d
        [] n = "media-col" -> col [] OTHER -> m] :
     c \in {{}, {0}, {1}, {2}}, d \in {{}, {0}, {1}, {2}},
     col \in {{}, {"a4"}, {"letter"}}, m \in {{}, {"a4"}, {"letter"}}}

NextOptions == PrepareCopies \/ PrepareMedia \/ PrepareDarkness

\* A job with or without each of the attributes, on a printer and a driver
\* with or without each of the defaults.
InitOptions ==
  /\ AttrsAtRest /\ FileAtRest /\ JobsEmpty /\ SystemAtRest
  /\ relock = "EDEADLK"
  /\ native_format = "raw"
  /\ PngAtRest
  /\ OptionsAtStart
  /\ attrs \in [AttrLevels -> AttrMaps]
  /\ attrs["job"]["copies"] \in {{}, {0}, {1}, {2}}
  /\ attrs["printer"]["copies"] \in {{}, {1}}
  /\ attrs["driver"]["copies"] \in {{}, {2}}
  /\ attrs["job"]["print-darkness"] \in {{}, {0}}
  /\ attrs["printer"]["print-darkness"] \in {{}, {1}}
  /\ attrs["driver"]["print-darkness"] \in {{}, {2}}

\* The options of one job are prepared.
SpecOptions == InitOptions /\ [][NextOptions]_vars

\* A printer that was created before: instance 1 has the resource path
\* derived from "x", instance n > 1 the path of instance n.
Earlier(n, name) ==
  [obj |-> MaxPrinters + n, name |-> name,
   resource |-> IF n = 1 THEN Derived(<<"x">>)
                ELSE Instance(Derived(<<"x">>), n),
   id |-> n, presets |-> {}]

\* A system in which printers were created before on the path derived from
\* "x" and on some of its instances, with room for one more printer.
InitCreatePath ==
  /\ AttrsAtRest /\ FileAtRest /\ QueueAtRest /\ relock = "EDEADLK"
  /\ multi_queue \in BOOLEAN
  /\ \E used \in SUBSET (1..LastInstance) :
       \E holder \in {<<"x">>, <<"x", " ">>} :
         printers = {Earlier(n, IF n = 1 THEN holder ELSE <<"x", "?">>) :
                       n \in used}
  /\ next_printer_id = LastInstance + 1
  /\ nobj = MaxPrinters - 1
  /\ resources = <<>>
  /\ deleted = {}
  /\ cpc = [c \in Creators |-> "idle"]
  /\ cname = [c \in Creators |-> <<>>]
  /\ cres = [c \in Creators |-> <<>>]
  /\ cprinter = [c \in Creators |-> NoPrinter]
  /\ cerrno = [c \in Creators |-> "none"]

NextCreatePath ==
  CreateFind("c1") \/ CreateAdd("c1") \/ CreateRoutes("c1")

\* One printer is created in a system that has printers.
SpecCreatePath == InitCreatePath /\ [][NextCreatePath]_vars

\* ------------------------------------------------------------------ claims
Active    == Range(active_jobs)
Completed == Range(completed_jobs)
AllJobs   == Range(all_jobs)

Terminal  == {"canceled", "aborted", "completed"}

\* Positions of a processor thread inside a format handler.
HandlerPcs == {"raw798", "ras710", "ras732", "ras738", "ras744", "ras768",
               "png432", "png571", "png582", "png590", "png665"}

\* C1: whenever processing_job is a job j, j is in active_jobs and j's state is
\* processing, also between a handler marking the job aborted and finalize.
C1_ProcessingJobIsActiveAndProcessing ==
  \A j \in Jobs :
    processing_job = j => j \in Active /\ jstate[j] = "processing"

\* C2: every member of active_jobs is pending, held, processing or stopped; no
\* job with a terminal state is ever seen in active_jobs.
C2_ActiveJobsNotTerminal ==
  \A j \in Active : jstate[j] \in {"pending", "held", "processing", "stopped"}

\* C3: a job is in at most one of active_jobs and completed_jobs, and every job
\* of either array is in all_jobs.
C3_ActiveCompletedDisjointInAll ==
  /\ Active \cap Completed = {}
  /\ Active \cup Completed \subseteq AllJobs

\* C3 witness: a processed job has been moved to completed_jobs while another
\* job is active, after a cancelAllJobs marked a job.
C3_Witness ==
  \E j \in Jobs, k \in Jobs :
    /\ j # k
    /\ pc[j] = "done" /\ j \in Completed /\ is_canceled[j]
    /\ k \in Active

\* C4 as claimed: the printer is processing exactly when processing_job is set.
C4_ProcessingIffProcessingJob ==
  (pstate = "processing") <=> (processing_job # NULL)

\* C4 amended: a printer in state processing has a processing_job; a printer
\* whose processor waits for the device is idle or stopped with processing_job
\* set, and is stopped once an open has failed.
C4_ProcessingImpliesProcessingJob ==
  /\ pstate = "processing" => processing_job # NULL
  /\ \A j \in Jobs :
       pc[j] \in {"relock58", "lock61", "open63", "sleep79", "unlock83", "proc86"}
         => /\ processing_job = j
            /\ pstate \in {"idle", "stopped"}
            /\ (pc[j] = "sleep79" => pstate = "stopped")

\* C4 witness: the processor retries the device open, the printer is stopped
\* and processing_job is set.
C4_Witness ==
  \E j \in Jobs :
    pc[j] = "sleep79" /\ ~first_open[j] /\ pstate = "stopped" /\ processing_job = j

\* C5: the processor of a job in the driver's native format never blocks for
\* ever on a lock it took itself, and once it has returned the job has left
\* active_jobs with a terminal state and is still in all_jobs.
C5_NativeJobRunsToEnd ==
  \A j \in Jobs :
    (format[j] = "raw" /\ pc[j] # "none") =>
      /\ pc[j] # "blocked"
      /\ pc[j] = "done" => /\ jstate[j] \in Terminal
                           /\ j \notin Active
                           /\ j \in AllJobs

\* C6: the processor never calls wrlock on a lock it already holds and never
\* returns holding a lock.
C6_LocksReleasedBeforeReacquireAndExit ==
  \A j \in Jobs :
    /\ pc[j] \in {"claim52", "relock58", "lock117", "relock129"} => ~jlock[j]
    /\ pc[j] \in {"lock61", "lock131", "drain141", "lock151"} => plock # j
    /\ pc[j] = "done" => ~jlock[j] /\ plock # j

\* C7: while the processor opens the device or sleeps before the next attempt
\* it does not hold the printer's lock.
C7_PrinterLockFreeWhileWaitingForDevice ==
  \A j \in Jobs : pc[j] \in {"open63", "sleep79"} => plock # j

\* One call of the driver's rstartpage for job j (whatever it returns).
StartPageCall(j) == pc[j] \in {"ras738", "png582"} /\ pc'[j] # pc[j]

\* C9: once is_canceled is set on a job no further rstartpage call is made for
\* it, in the raster streamer and in the PNG renderer.
C9_NoPageStartedAfterCancel ==
  [][\A j \in Jobs : is_canceled[j] => ~StartPageCall(j)]_vars

\* C8: a failed device open stops the printer and is logged on the first
\* failure only; every later failure is silent; after each failure the open is
\* tried again; the failures leave the job processing (never aborted); once the
\* device is open the printer becomes processing for the handler, and idle at
\* finalize; a processor waiting to retry does reach the handler when the
\* device opens at some attempt.
C8_OpenRetry ==
  /\ [](\A j \in Jobs :
          /\ unavail_logs[j] <= 1
          /\ pc[j] = "sleep79" =>
               pstate = "stopped" /\ unavail_logs[j] = 1 /\ ~first_open[j]
          /\ pc[j] \in {"open63", "sleep79", "unlock83", "proc86"} =>
               jstate[j] = "processing"
          /\ pc[j] \in HandlerPcs => pstate = "processing")
  /\ [][\A j \in Jobs :
          /\ (pc[j] = "open63" /\ pc'[j] = "sleep79" /\ first_open[j]) =>
               pstate' = "stopped" /\ unavail_logs'[j] = unavail_logs[j] + 1
          /\ (pc[j] = "open63" /\ pc'[j] = "sleep79" /\ ~first_open[j]) =>
               pstate' = pstate /\ unavail_logs'[j] = unavail_logs[j]
          /\ (pc[j] = "sleep79" /\ pc'[j] # pc[j]) => pc'[j] = "open63"
          /\ (pc[j] = "proc86" /\ pc'[j] # pc[j]) => pstate' = "processing"
          /\ (pc[j] = "fin119" /\ pc'[j] # pc[j]) => pstate' = "idle"]_vars
  /\ \A j \in Jobs :
       (pc[j] = "sleep79") ~>
         (pc[j] \in HandlerPcs \cup {"lock117"} /\ pstate = "processing")

\* C8 witness: the open failed, was retried, succeeded, and the job is in its
\* handler, still processing, with one line logged.
C8_Witness ==
  \E j \in Jobs :
    /\ pc[j] \in HandlerPcs
    /\ ~first_open[j] /\ unavail_logs[j] = 1
    /\ pstate = "processing" /\ jstate[j] = "processing"

C11_CanceledJobHasNoSpoolFile ==
  \A j \in Jobs :
    (is_canceled[j] /\ jstate[j] = "canceled") => ~hasfile[j]

\* C12: one call of papplPrinterCancelAllJobs treats every job that was in
\* active_jobs: a processing job, or a held one with an open file, is only
\* marked is_canceled and stays; every other job becomes canceled, loses its
\* spool file and moves to completed_jobs; jobs outside active_jobs are not
\* touched.
C12_CancelAllJobsVisitsEveryJob ==
  [][papplPrinterCancelAllJobs =>
       \A j \in Jobs :
         IF j \notin Active
         THEN /\ jstate'[j] = jstate[j] /\ is_canceled'[j] = is_canceled[j]
              /\ hasfile'[j] = hasfile[j]
              /\ j \notin Range(active_jobs')
         ELSE IF jstate[j] = "processing" \/ (jstate[j] = "held" /\ fd[j])
         THEN /\ is_canceled'[j]
              /\ jstate'[j] = jstate[j] /\ hasfile'[j] = hasfile[j]
              /\ j \in Range(active_jobs')
         ELSE /\ jstate'[j] = "canceled" /\ ~hasfile'[j]
              /\ is_canceled'[j] = is_canceled[j]
              /\ j \notin Range(active_jobs')
              /\ j \in Range(completed_jobs')]_vars

\* C12 witness: two jobs that no processor ever touched were both canceled and
\* moved, their files removed, while jobs were taken out of the iterated array.
C12_Witness ==
  /\ \A j \in Jobs : /\ pc[j] = "none" /\ jstate[j] = "canceled"
                     /\ ~hasfile[j] /\ ~is_canceled[j]
  /\ active_jobs = <<>>
  /\ Completed = Jobs

ProcessorRunning(j) == pc[j] \notin {"none", "done"}

\* C15: the device is open only while a processor of the printer is running,
\* and a processor that is inside its format handler has the device open.
C15_DeviceOpenIffProcessorHoldsIt ==
  /\ device => \E j \in Jobs : ProcessorRunning(j)
  /\ \A j \in Jobs : pc[j] \in HandlerPcs => device

\* C16: every step that changes printer->state or printer->processing_job is
\* taken by a thread that holds the printer's writer lock.
C16_PrinterStateWrittenUnderLock ==
  [][(pstate' # pstate \/ processing_job' # processing_job) =>
       \E j \in Jobs : plock = j /\ pc'[j] # pc[j]]_vars

\* C17: every step that changes printer->driver_data, printer->driver_attrs or
\* the job-presets-supported attribute of printer->attrs is taken while the
\* printer's lock is held for writing.
C17_AttributeMapsWrittenUnderWriterLock ==
  [][(driver_data' # driver_data \/ driver_attrs' # driver_attrs \/ jps' # jps)
       => writer # "none"]_vars

\* C18: no two presets of the printer have the same name.
C18_PresetNamesUnique ==
  \A k \in 1..Len(presets), m \in 1..Len(presets) :
    k # m => presets[k].name # presets[m].name

\* C19: a create or copy request that ends with a name conflict leaves the
\* presets, job-presets-supported and the routes as they were; a create request
\* is carried on only with a name no preset has; and whenever a preset is added
\* its name is one no preset had and the other presets stay.
C19_DuplicateCreateRejected ==
  /\ [][((PresetCreate \/ PresetCopy) /\ status' = "NameConflict") =>
          (presets' = presets /\ jps' = jps /\ routes' = routes)]_vars
  /\ [][(PresetCreate /\ tpc'["web"] = "lock1497") =>
          req'.name \notin PresetNames]_vars
  /\ [][Len(presets') > Len(presets) /\ Created =>
          /\ Len(presets') = Len(presets) + 1
          /\ presets'[Len(presets')].name \notin PresetNames
          /\ SubSeq(presets', 1, Len(presets)) = presets]_vars

\* C19 witness: a request was rejected with a name conflict on a printer that
\* holds presets.
C19_Witness ==
  /\ status = "NameConflict"
  /\ Len(presets) >= 1 /\ Len(presets) < MaxPresets
  /\ tpc["web"] = "idle"

\* C20: whenever no preset request is in progress on the created printer,
\* job-presets-supported has one member per preset and its i-th member carries
\* the name and the set values of the i-th preset.
C20_JobPresetsSupportedMirrorsPresets ==
  (Created /\ tpc["web"] = "idle") =>
    /\ Len(jps.members) = Len(presets)
    /\ \A k \in 1..Len(presets) :
         /\ jps.members[k].name = presets[k].name
         /\ jps.members[k].vals = presets[k].vals

\* C21: the publishing step of a preset edit keeps the number of members of
\* job-presets-supported, puts the edited preset's collection at the index the
\* preset has, and leaves every other member as it was.
C21_EditKeepsOrderAndCount ==
  [][PresetEditPublish =>
       /\ Len(jps'.members) = Len(jps.members)
       /\ req.at \in 1..Len(jps.members)
       /\ jps'.members[req.at] = Member("preset_name", req.name, req.vals)
       /\ \A m \in 1..Len(jps.members) :
            m # req.at => jps'.members[m] = jps.members[m]]_vars

\* C22: once a state file whose opener lines are all well formed has been
\* read, the presets added to the printer are the presets the file was written
\* from: same names, values and check bits.
C22_StateFileRoundTrip ==
  (fpc = "done" /\ \A k \in 1..Len(Openers) : ~BadPresetDefinition(Openers[k]))
    => loaded = saved

\* C23: once the state file has been read, every preset of the file whose
\* opener line is well formed has been added to the printer.
C23_ParseErrorDropsOnlyThatPreset ==
  fpc = "done" =>
    \A k \in 1..Len(Openers) :
      ~BadPresetDefinition(Openers[k]) =>
        \E m \in 1..Len(loaded) :
          loaded[m].id = Openers[k].id /\ loaded[m].name = Openers[k].name

\* C24: no step removes a preset from the printer's presets while the
\* printer's processing_job is set.
C24_NoPresetRemovedWhileProcessing ==
  [][Len(presets') < Len(presets) => processing_job = NULL]_vars

PathUsed(res) == \E p \in printers : p.resource = res

\* The lowest instance number of the path that no printer has.
LowestFreeInstance(res) ==
  CHOOSE n \in 2..LastInstance :
    /\ ~PathUsed(Instance(res, n))
    /\ \A m \in 2..(n - 1) : PathUsed(Instance(res, m))

NoFreeInstance(res) == \A n \in 2..LastInstance : PathUsed(Instance(res, n))

\* C26 as stated: creating a printer fails with EEXIST exactly when the path
\* derived from the name is used and none of the instances _2 .. _9 is free;
\* when the path is used and an instance is free, the printer gets the first
\* free instance.
C26_AlreadyExistsOnlyWithoutFreeInstance ==
  [][CreateFind("c1") =>
       LET res == Derived(cname'["c1"]) IN
       /\ cerrno'["c1"] = "EEXIST" <=> (PathUsed(res) /\ NoFreeInstance(res))
       /\ (PathUsed(res) /\ ~NoFreeInstance(res)) =>
            /\ cpc'["c1"] = "add1168"
            /\ cres'["c1"] = Instance(res, LowestFreeInstance(res))]_vars

\* C26 amended: creating a printer fails with EEXIST exactly when the path
\* derived from the name is used and either the printer that has it has the
\* same name or none of the instances _2 .. _9 is free; otherwise the printer
\* gets the derived path when it is unused and the first free instance when
\* it is used.
C26_AlreadyExistsSameNameOrNoFreeInstance ==
  [][CreateFind("c1") =>
       LET res  == Derived(cname'["c1"])
           same == \E p \in printers :
                     p.resource = res /\ p.name = cname'["c1"]
           fail == PathUsed(res) /\ (same \/ NoFreeInstance(res))
       IN
       /\ cerrno'["c1"] = "EEXIST" <=> fail
       /\ fail => cpc'["c1"] = "idle" /\ printers' = printers
       /\ ~fail =>
            /\ cpc'["c1"] = "add1168"
            /\ cres'["c1"] = IF PathUsed(res)
                             THEN Instance(res, LowestFreeInstance(res))
                             ELSE res]_vars

\* A creation has failed although the printer on the derived path has another
\* name: all instances are taken.
C26_Witness ==
  /\ cerrno["c1"] = "EEXIST"
  /\ PathUsed(Derived(cname["c1"]))
  /\ \A p \in printers :
       p.resource = Derived(cname["c1"]) => p.name # cname["c1"]
  /\ NoFreeInstance(Derived(cname["c1"]))

\* C27: no two printers of the system have the same resource path, and no two
\* have the same printer id.
C27_PathsAndIdsUnique ==
  \A p, q \in printers :
    p.obj # q.obj => p.resource # q.resource /\ p.id # q.id

\* The routes of the resource table that belong to a printer object.
Registered(table, obj) ==
  {k \in 1..Len(table) : table[k].cbdata.printer = obj}

\* C28: the resource table has no route of a deleted printer, whether its
\* callback data is the printer or a binding of the printer and a preset name,
\* and deleting a printer leaves every route of the other printers in the
\* table.
C28_DeleteRemovesExactlyThePrintersRoutes ==
  /\ [](\A obj \in deleted : Registered(resources, obj) = {})
  /\ [][\A p \in printers : DeletePrinter(p) =>
          \A q \in printers \ {p} :
            \A k \in Registered(resources, q.obj) :
              \E m \in Registered(resources', q.obj) :
                resources'[m] = resources[k]]_vars

\* The steps of a job's processor that read or write fields of job->printer
\* (processing_job at 56, state and processing_job at 125-127, the job arrays
\* at 133-134, is_deleted and active_jobs at 141-145, device at 153-154).
PrinterAccess(j) ==
  \/ Claim(j) \/ Finalize(j) \/ MoveJob(j)
  \/ DrainNext(j) \/ DrainEmpty(j) \/ DrainDeleted(j) \/ CloseDevice(j)

\* C29: the printer is freed only when no processor thread of it is running,
\* and no processor thread reads or writes the printer after it was freed.
C29_FreedOnlyAfterThreadsExited ==
  /\ [][(freed' /\ ~freed) => \A j \in Jobs : ~ProcessorRunning(j)]_vars
  /\ [][\A j \in Jobs : PrinterAccess(j) => ~freed]_vars

\* C30: no pixel row goes to the driver after rstartjob, rstartpage, rwrite,
\* rendpage or rendjob returned false, and a job for which one of them
\* returned false ends aborted, or canceled if it was canceled.
C30_CallbackFailureAborts ==
  /\ ~late_rows
  /\ (rpc = "done" /\ failed # "none") => rstate \in {"aborted", "canceled"}

\* C34: the device is open whenever a processor is inside a format handler,
\* and a step that closes the device is taken only while no job is being
\* processed and no processor is on its way to a handler.
C34_DeviceOpenWhileProcessing ==
  /\ [](\A j \in Jobs : pc[j] \in HandlerPcs => device)
  /\ [][(device /\ ~device') => processing_job = NULL]_vars

\* The formats that have a handler of their own (job-process.c:89-103).
OwnHandler == {"raster", "jpeg", "png"}

\* C36 as stated: a job whose format is neither a raster or image format nor
\* the driver's format goes from the dispatch straight to the end of processing
\* and ends aborted; a job in the driver's format is handed to print_cb, once,
\* and ends aborted when print_cb failed and completed when it succeeded.
C36_DispatchByFormat ==
  /\ [][\A j \in Jobs :
          (Dispatch(j) /\ format[j] \notin OwnHandler \cup {native_format}) =>
            (pc'[j] = "lock117" /\ jstate'[j] = "aborted")]_vars
  /\ [][\A j \in Jobs :
          (Finalize(j) /\ format[j] \notin OwnHandler \cup {native_format}) =>
            jstate'[j] = "aborted"]_vars
  /\ [][\A j \in Jobs :
          (Dispatch(j) /\ format[j] = native_format) => pc'[j] = "raw798"]_vars
  /\ [][\A j \in Jobs : ProcessRaw(j) => pc'[j] = "lock117"]_vars
  /\ [][\A j \in Jobs :
          (Finalize(j) /\ format[j] = native_format) =>
            jstate'[j] = IF jstate[j] = "aborted" THEN "aborted"
                         ELSE "completed"]_vars

\* C36 amended: the same, with two provisos.  A job that was canceled while it
\* was processed (is_canceled was set, or papplPrinterCancelAllJobs set its
\* state to canceled after the handler had marked it aborted) ends canceled; and a job in a raster or image format goes to
\* that format's handler also when the format is the driver's own, so print_cb
\* is called for the driver's format only when it is none of those.
C36_DispatchByFormatUnlessCanceled ==
  /\ [][\A j \in Jobs :
          (Dispatch(j) /\ format[j] \notin OwnHandler \cup {native_format}) =>
            (pc'[j] = "lock117" /\ jstate'[j] = "aborted")]_vars
  /\ [][\A j \in Jobs :
          (Finalize(j) /\ format[j] \notin OwnHandler \cup {native_format}) =>
            jstate'[j] = IF is_canceled[j] \/ jstate[j] = "canceled"
                         THEN "canceled" ELSE "aborted"]_vars
  /\ [][\A j \in Jobs :
          (Dispatch(j) /\ format[j] \in OwnHandler) =>
            pc'[j] = CASE format[j] = "raster" -> "ras710"
                       [] format[j] = "png"    -> "png432"
                       [] OTHER                -> "lock117"]_vars
  /\ [][\A j \in Jobs :
          (Dispatch(j) /\ format[j] = native_format
                       /\ format[j] \notin OwnHandler) =>
            pc'[j] = "raw798"]_vars
  /\ [][\A j \in Jobs : ProcessRaw(j) => pc'[j] = "lock117"]_vars
  /\ [][\A j \in Jobs :
          (Finalize(j) /\ format[j] = native_format
                       /\ format[j] \notin OwnHandler) =>
            jstate'[j] = IF is_canceled[j] \/ jstate[j] = "canceled"
                         THEN "canceled"
                         ELSE IF jstate[j] = "aborted" THEN "aborted"
                         ELSE "completed"]_vars

\* A job in the driver's format was handed to print_cb, was canceled while it
\* was processed, and its processor has finished.
C36_Witness ==
  \E j \in Jobs :
    /\ format[j] = native_format
    /\ format[j] \notin OwnHandler
    /\ pc[j] = "done"
    /\ jstate[j] = "canceled"

\* C40: a preset delete through the route bound to a name removes the preset
\* of that name and no other, and removes nothing when the printer has no
\* preset of that name.
C40_DeleteRemovesTheBoundPreset ==
  [][PresetDeleteRemove =>
       IF \E k \in 1..Len(presets) : presets[k].name = req.name
       THEN \E k \in 1..Len(presets) :
              /\ presets[k].name = req.name
              /\ presets' = RemoveAt(presets, k)
       ELSE presets' = presets]_vars

\* A raster job that ended aborted after rstartjob had returned true has had
\* rendjob called.
RasterAbortRunsEndJob ==
  (rpc = "done" /\ rstate = "aborted" /\ rstartjob_ok) => rendjob_calls >= 1

\* The same for a PNG job; rstartjob returned true when another callback was
\* called after it.
PngAbortRunsEndJob ==
  (ppc = "done" /\ png_state = "aborted" /\ Len(calls) >= 2) =>
    \E k \in 1..Len(calls) : calls[k].cb = "rendjob"

\* C31: a job that is aborted after the driver's rstartjob succeeded has had
\* rendjob run by the time its handler is left, in the raster streamer and in
\* the PNG renderer.
C31_AbortRunsEndJob == RasterAbortRunsEndJob /\ PngAbortRunsEndJob

\* C39: when the fit-scale step of process_png has run (on an image of at
\* least 1 by 1 pixels and an imageable area of at least 1 by 1 dots), xsize is
\* in 1 .. iwidth and ysize is in 1 .. iheight, so that the divisions by xsize
\* and ysize that follow do not divide by zero.
C39_FitScaleInRange ==
  ppc = "png559" =>
    /\ 1 <= scale.xsize /\ scale.xsize <= scale.iwidth
    /\ 1 <= scale.ysize /\ scale.ysize <= scale.iheight

\* The address of the pixel in column c and row r of the rotated image.
Rotated(c, r) == scale.pixbase + scale.xdir * c + scale.ydir * r

\* C38: whenever process_png reads a pixel, for output pixel k = x - xstart of
\* output row y, it reads the pixel in column floor(k * png_width / xsize) and
\* row floor((y - ystart) * png_height / ysize) of the rotated image, and the
\* address it reads is inside the buffer of the decoded image.
C38_ReadsTheScaledPixel ==
  ppc = "png608" =>
    /\ pos.wraps = 0
    /\ pos.pixptr =
         Rotated(((pos.x - scale.xstart) * scale.png_width) \div scale.xsize,
                 ((pos.y - scale.ystart) * scale.png_height) \div scale.ysize)
    /\ InBuffer(pos)

\* C32: two runs of process_png on the same pixels, width, height, orientation,
\* margins, resolution and dither matrix hand the same lines to rwrite: at
\* every step both runs are alive or both were ended, and their output lines
\* are equal.
C32_RunsWriteTheSameLines ==
  /\ killed[1] = killed[2]
  /\ line[1] = line[2]

\* The callbacks of one page of header.cupsHeight rows.
PageCalls ==
  <<[cb |-> "rstartpage", y |-> 0]>>
    \o [k \in 1..options.cupsHeight |-> [cb |-> "rwrite", y |-> k - 1]]
    \o <<[cb |-> "rendpage", y |-> 0]>>

RECURSIVE CopiesCalls(_)
CopiesCalls(n) == IF n <= 0 THEN <<>> ELSE PageCalls \o CopiesCalls(n - 1)

\* C35: when process_png has printed a job (the job ends completed), the
\* callbacks it called are rstartjob, then for each of the copies rstartpage,
\* rwrite for y = 0, 1, ..., header.cupsHeight - 1 in this order and rendpage,
\* and then rendjob, once.
C35_CallbackProtocol ==
  (ppc = "done" /\ png_state = "completed") =>
    calls = <<[cb |-> "rstartjob", y |-> 0]>>
              \o CopiesCalls(options.copies)
              \o <<[cb |-> "rendjob", y |-> 0]>>

\* A job of two copies was printed whose pages have blank rows above the
\* image, rows of the image and blank rows below it.
C35_Witness ==
  /\ ppc = "done" /\ png_state = "completed"
  /\ options.copies = 2
  /\ 0 < scale.ystart /\ scale.ystart < scale.yend
  /\ scale.yend < options.cupsHeight
  /\ scale.xstart < scale.xend

\* C33: the options prepare_options hands to the format handlers have
\* copies >= 1, whatever copies attribute the job, the printer or the driver
\* carries.
C33_CopiesAtLeastOne ==
  opc # "opt221" => prepared.copies >= 1

\* C37: every lookup of prepare_options returns the job's attribute of that
\* name when the job has one, otherwise the printer's default of that name
\* when the printer has one, otherwise the driver's default when the driver
\* has one, and returns nothing only when all three are absent.
C37_LookupPrecedence ==
  \A n \in DOMAIN lookups :
    LET r == lookups[n]
        job == attrs["job"][n]
        printer == attrs["printer"][n]
        driver == attrs["driver"][n]
    IN  /\ job # {} => (r.from = "job" /\ r.values = job)
        /\ (job = {} /\ printer # {}) =>
             (r.from = "printer" /\ r.values = printer)
        /\ (job = {} /\ printer = {} /\ driver # {}) =>
             (r.from = "driver" /\ r.values = driver)
        /\ r.from = "none" <=> (job = {} /\ printer = {} /\ driver = {})

\* prepare_options has looked up all four names, found one at each of the
\* three levels past a level that had it too, and one nowhere.
C37_Witness ==
  /\ opc = "done"
  /\ DOMAIN lookups = OptionNames
  /\ lookups["copies"].from = "printer" /\ attrs["driver"]["copies"] # {}
  /\ lookups["media"].from = "job" /\ attrs["printer"]["media"] # {}
  /\ lookups["print-darkness"].from = "driver"
  /\ lookups["media-col"].from = "none"
====
